---------------------------- MODULE Spec2Model ----------------------------
(***************************************************************************)
(* Model of vertex2api-golang: the streaming reasoning splitter, the       *)
(* streaming proxy, the Express key pool and the retry loops.              *)
(*                                                                         *)
(* Text is a sequence of one-character strings.  The splitter is a pure    *)
(* function of (processor state, chunk) and is written as operators; the   *)
(* specifications below drive it with bounded inputs.                      *)
(***************************************************************************)
EXTENDS Integers, Sequences, FiniteSets, TLC

(***************************************************************************)
(* Bounds of the model.                                                    *)
(***************************************************************************)
\* length of the tag name the processor is constructed with
TagNameLen == 1
\* a text is the concatenation of at most MaxPieces pieces
MaxPieces == 5
\* a fragment fed to ProcessChunk has at most MaxChunk characters
MaxChunk == 4
\* the upstream body of a streaming attempt has at most MaxLines lines
MaxLines == 3
\* the pool holds at most MaxKeys keys
MaxKeys == 3
\* RETRY_MAX is at most MaxRetryMax
MaxRetryMax == 2
\* at most MaxRetryRequests requests with a retry loop are received in a run
MaxRetryRequests == 1
\* at most MaxGeminiRequests GeminiHandler requests are received in a run
MaxGeminiRequests == 4

\* calls of generateToolCallID
MaxToolCalls == 4

\* pieces of the text of a backend reply
MaxRespPieces == 5

\* messages of a chat-completion request
MaxMessages == 3

\* requests received while two goroutines serve both kinds of request
MaxServerRequests == 2

(***************************************************************************)
(* Generic helpers (Go built-ins and package strings).                     *)
(***************************************************************************)
Min(S) == CHOOSE x \in S : \A y \in S : x <= y

max(a, b) == IF a >= b THEN a ELSE b

\* s[lo:hi] of Go, 0-based, hi exclusive
Slice(s, lo, hi) == SubSeq(s, lo + 1, hi)

\* strings.Index: 0-based index of the first occurrence of t in s, or -1
Index(s, t) ==
    LET I == {i \in 0..(Len(s) - Len(t)) : Slice(s, i, i + Len(t)) = t}
    IN IF I = {} THEN -1 ELSE Min(I)

(***************************************************************************)
(* handlers.StreamingReasoningProcessor                                    *)
(***************************************************************************)
\* const ThinkingTagMarker: a tag name of TagNameLen letters, none of them
\* "<", "/" or ">" (as in "vertex_think_tag")
ThinkingTagMarker == [i \in 1..TagNameLen |-> "t"]

NewStreamingReasoningProcessor(tagName) ==
    [openTag  |-> <<"<">> \o tagName \o <<">">>,
     closeTag |-> <<"<", "/">> \o tagName \o <<">">>,
     inTag    |-> FALSE,
     buffer   |-> <<>>]

\* the mutant of findPartialTagStart: a partial open tag is never held back
findPartialTagStart_none(openTag, buf) == -1

\* for i := 1; i < len(openTag) && i <= len(buf); i++ : the first i whose
\* suffix of buf equals the prefix of openTag
findPartialTagStart(openTag, buf) ==
    LET I == {i \in 1..Len(buf) :
                 /\ i < Len(openTag)
                 /\ Slice(buf, Len(buf) - i, Len(buf)) = Slice(openTag, 0, i)}
    IN IF I = {} THEN -1 ELSE Len(buf) - Min(I)

\* the mutant of KeepFrom: nothing is held back inside a region
KeepFrom_all(closeTag, buf) == Len(buf)

\* the mutant of KeepFrom: everything is held back inside a region
KeepFrom_zero(closeTag, buf) == 0

\* keep := max(0, len(buf)-len(p.closeTag)+1)
KeepFrom(closeTag, buf) == max(0, Len(buf) - Len(closeTag) + 1)

\* the mutant of ProcessLoop: inside a region an open delimiter that comes
\* before the close delimiter is taken for a delimiter again and dropped
RECURSIVE ProcessLoop_nested(_, _, _, _)
ProcessLoop_nested(p, buf, content, reasoning) ==
    IF p.inTag
    THEN LET idx == Index(buf, p.closeTag)
             openIdx == Index(buf, p.openTag)
         IN
         IF openIdx >= 0 /\ (idx < 0 \/ openIdx < idx)
         THEN ProcessLoop_nested(p,
                                 Slice(buf, openIdx + Len(p.openTag), Len(buf)),
                                 content,
                                 reasoning \o Slice(buf, 0, openIdx))
         ELSE IF idx < 0
         THEN LET keep == max(0, Len(buf) - Len(p.closeTag) + 1) IN
              [p |-> [p EXCEPT !.buffer = Slice(buf, keep, Len(buf))],
               processedContent |-> content,
               reasoningContent |-> reasoning \o Slice(buf, 0, keep)]
         ELSE ProcessLoop_nested([p EXCEPT !.inTag = FALSE],
                                 Slice(buf, idx + Len(p.closeTag), Len(buf)),
                                 content,
                                 reasoning \o Slice(buf, 0, idx))
    ELSE LET idx == Index(buf, p.openTag) IN
         IF idx < 0
         THEN LET partialIdx == findPartialTagStart(p.openTag, buf) IN
              IF partialIdx >= 0
              THEN [p |-> [p EXCEPT !.buffer = Slice(buf, partialIdx, Len(buf))],
                    processedContent |-> content \o Slice(buf, 0, partialIdx),
                    reasoningContent |-> reasoning]
              ELSE [p |-> [p EXCEPT !.buffer = <<>>],
                    processedContent |-> content \o buf,
                    reasoningContent |-> reasoning]
         ELSE ProcessLoop_nested([p EXCEPT !.inTag = TRUE],
                                 Slice(buf, idx + Len(p.openTag), Len(buf)),
                                 content \o Slice(buf, 0, idx),
                                 reasoning)

\* The for-loop of ProcessChunk over the local buf and the accumulators
\* p.content / p.reasoning; the result is the processor after the break
\* together with the two accumulated outputs.
RECURSIVE ProcessLoop(_, _, _, _)
ProcessLoop(p, buf, content, reasoning) ==
    IF p.inTag
    THEN LET idx == Index(buf, p.closeTag) IN
         IF idx < 0
         THEN LET keep == KeepFrom(p.closeTag, buf) IN
              [p |-> [p EXCEPT !.buffer = Slice(buf, keep, Len(buf))],
               processedContent |-> content,
               reasoningContent |-> reasoning \o Slice(buf, 0, keep)]
         ELSE ProcessLoop([p EXCEPT !.inTag = FALSE],
                          Slice(buf, idx + Len(p.closeTag), Len(buf)),
                          content,
                          reasoning \o Slice(buf, 0, idx))
    ELSE LET idx == Index(buf, p.openTag) IN
         IF idx < 0
         THEN LET partialIdx == findPartialTagStart(p.openTag, buf) IN
              IF partialIdx >= 0
              THEN [p |-> [p EXCEPT !.buffer = Slice(buf, partialIdx, Len(buf))],
                    processedContent |-> content \o Slice(buf, 0, partialIdx),
                    reasoningContent |-> reasoning]
              ELSE [p |-> [p EXCEPT !.buffer = <<>>],
                    processedContent |-> content \o buf,
                    reasoningContent |-> reasoning]
         ELSE ProcessLoop([p EXCEPT !.inTag = TRUE],
                          Slice(buf, idx + Len(p.openTag), Len(buf)),
                          content \o Slice(buf, 0, idx),
                          reasoning)

\* ProcessChunk: append the chunk to the buffer, run the loop, return the
\* accumulated content and reasoning and reset the accumulators
ProcessChunk(p, chunk) == ProcessLoop(p, p.buffer \o chunk, <<>>, <<>>)

\* the mutant of FlushRemaining: the buffer is always returned as content
FlushRemaining_asContent(p) == [content |-> p.buffer, reasoning |-> <<>>]

\* FlushRemaining returns (content, reasoning); the processor is unchanged
FlushRemaining(p) ==
    IF p.inTag
    THEN [content |-> <<>>, reasoning |-> p.buffer]
    ELSE [content |-> p.buffer, reasoning |-> <<>>]

(***************************************************************************)
(* Input texts of the splitter.                                            *)
(***************************************************************************)
OpenTag == NewStreamingReasoningProcessor(ThinkingTagMarker).openTag
CloseTag == NewStreamingReasoningProcessor(ThinkingTagMarker).closeTag

\* plain letters, the two delimiters, and the pieces that make partial and
\* overlapping delimiters
Pieces == {OpenTag, CloseTag, <<"a">>, <<"<">>, <<"t">>}

RECURSIVE TextsUpTo(_)
TextsUpTo(k) ==
    IF k = 0 THEN {<<>>}
    ELSE LET T == TextsUpTo(k - 1) IN T \cup {t \o q : t \in T, q \in Pieces}

Texts == TextsUpTo(MaxPieces)

VARIABLES
    \* the splitter driven on its own
    text,           \* the whole text the upstream will deliver
    pos,            \* number of characters of text fed so far
    nFrags,         \* number of fragments fed so far
    p,              \* the StreamingReasoningProcessor
    outContent,     \* concatenation of the content returned so far
    outReasoning,   \* concatenation of the reasoning returned so far
    splitPc,        \* "off" | "feeding" | "flushed"
    \* one call of handleStreamingProxy
    httpResult,     \* what httpClient.Do gives: "error" | "status" | "ok"
    upstream,       \* the lines of the upstream response body
    scanErr,        \* TRUE: the body ends with a read error, not with EOF
    lineNo,         \* number of lines scanned so far
    events,         \* the events written to the caller, in order
    streamPc,       \* "off" | "start" | "scan" | "returned"
    streamErr,      \* the error handleStreamingProxy returned, or "nil"
    downstream,     \* the caller's connection: "connected" | "gone" (closed by
                    \* the caller) | "write failed" (a write was made after that)
    \* the configuration, the KeyManager and the requests in progress
    cfg,            \* config.Config: NumKeys, RoundRobin, RetryMax, GCPProjectID
    currentIndex,   \* km.currentIndex, the rotation cursor
    mu,             \* km.mu: 0 when unlocked, else the request holding it
    projectCache,   \* km.projectCache: key index -> project id or NoProject
    cacheMu,        \* km.cacheMu: the readers and the writer holding it
    req,            \* per request goroutine: its position and locals
    served,         \* number of requests received so far
    rrPicks,        \* the indices PickAuth selected under round-robin, in order
    \* auth.Middleware: one request on its way to the handlers
    apiKey,         \* cfg.APIKey, the configured shared credential ("" for none)
    httpReq,        \* the request: Authorization and x-goog-api-key headers, key parameter
    authPc,         \* "off" | "received" | "handler" (next.ServeHTTP ran) | "rejected"
    \* translate.ToGeminiRequest
    oaiReq,         \* the ChatCompletionRequest: Messages, ToolChoice
    geminiReq,      \* the GeminiRequest returned, or "none"
    \* the translation of a backend reply
    gemResp,        \* the reply: its text, its finish reason, its function-call parts
    procOut,        \* the message processNonStreamingResponse returned
    transOut,       \* the choice FromGeminiResponse built, or its panic
    \* translate.generateToolCallID
    toolCallCounter, \* the package variable toolCallCounter
    tcall,          \* per goroutine: its position in generateToolCallID and locals
    toolCallIDs,    \* the ids generateToolCallID returned so far, in order
    \* translate.StreamState
    streamState     \* inThinking, thinkingBuffer, contentBuffer

splitVars == <<text, pos, nFrags, outContent, outReasoning, splitPc>>

streamVars == <<httpResult, upstream, scanErr, lineNo, events, streamPc, streamErr,
                downstream>>

poolVars == <<cfg, currentIndex, mu, projectCache, cacheMu, req, served, rrPicks>>

authVars == <<apiKey, httpReq, authPc>>

requestVars == <<oaiReq, geminiReq>>

responseVars == <<gemResp, procOut, transOut>>

toolCallVars == <<toolCallCounter, tcall, toolCallIDs>>

transVars == <<authVars, requestVars, responseVars, toolCallVars, streamState>>

\* what the requests leave alone
otherVars == <<splitVars, p, streamVars, transVars>>

vars == <<splitVars, p, streamVars, poolVars, transVars>>

\* the values of the variables of a part of the program that a
\* specification does not run
SplitOff ==
    /\ text = <<>>
    /\ pos = 0
    /\ nFrags = 0
    /\ outContent = <<>>
    /\ outReasoning = <<>>
    /\ splitPc = "off"

StreamOff ==
    /\ httpResult = "ok"
    /\ upstream = <<>>
    /\ scanErr = FALSE
    /\ lineNo = 0
    /\ events = <<>>
    /\ streamPc = "off"
    /\ streamErr = "nil"
    /\ downstream = "connected"

PoolOff ==
    /\ cfg = [NumKeys |-> 1, RoundRobin |-> FALSE, RetryMax |-> 0, GCPProjectID |-> ""]
    /\ currentIndex = 0
    /\ mu = 0
    /\ projectCache = <<>>
    /\ cacheMu = [readers |-> {}, writer |-> 0]
    /\ req = <<>>
    /\ served = 0
    /\ rrPicks = <<>>

AuthOff ==
    /\ apiKey = ""
    /\ httpReq = "none"
    /\ authPc = "off"

RequestOff ==
    /\ oaiReq = "none"
    /\ geminiReq = "none"

\* no result yet
NoMessage == [state |-> "none", content |-> <<>>, reasoning |-> <<>>]

NoChoice ==
    [state |-> "none", finish_reason |-> "", content |-> <<>>,
     reasoning_content |-> <<>>, tool_calls |-> <<>>]

ResponseOff ==
    /\ gemResp = "none"
    /\ procOut = NoMessage
    /\ transOut = NoChoice

ToolCallOff ==
    /\ toolCallCounter = 0
    /\ tcall = <<>>
    /\ toolCallIDs = <<>>

StreamStateOff == streamState = "none"

TransOff == AuthOff /\ RequestOff /\ ResponseOff /\ ToolCallOff /\ StreamStateOff

(***************************************************************************)
(* SpecSplit: one processor fed one text in every partition.               *)
(***************************************************************************)
InitSplit ==
    /\ text \in Texts
    /\ pos = 0
    /\ nFrags = 0
    /\ p = NewStreamingReasoningProcessor(ThinkingTagMarker)
    /\ outContent = <<>>
    /\ outReasoning = <<>>
    /\ splitPc = "feeding"
    /\ StreamOff
    /\ PoolOff
    /\ TransOff

\* the caller feeds the next n characters as one fragment
SplitProcessChunk ==
    /\ splitPc = "feeding"
    /\ \E n \in 1..MaxChunk :
        /\ pos + n <= Len(text)
        /\ LET r == ProcessChunk(p, Slice(text, pos, pos + n)) IN
            /\ p' = r.p
            /\ outContent' = outContent \o r.processedContent
            /\ outReasoning' = outReasoning \o r.reasoningContent
        /\ pos' = pos + n
        /\ nFrags' = nFrags + 1
    /\ UNCHANGED <<text, splitPc, streamVars, poolVars, transVars>>

\* the stream ended: the caller takes what FlushRemaining returns
SplitFlushRemaining ==
    /\ splitPc = "feeding"
    /\ pos = Len(text)
    /\ LET f == FlushRemaining(p) IN
        /\ outContent' = outContent \o f.content
        /\ outReasoning' = outReasoning \o f.reasoning
    /\ splitPc' = "flushed"
    /\ UNCHANGED <<text, pos, nFrags, p, streamVars, poolVars, transVars>>

NextSplit == SplitProcessChunk \/ SplitFlushRemaining

SpecSplit == InitSplit /\ [][NextSplit]_vars

(***************************************************************************)
(* handlers.handleStreamingProxy: one streaming attempt.                   *)
(***************************************************************************)
\* a line of the upstream body, as the scan loop tells lines apart:
\*   "empty"      the empty line
\*   "other"      a line without the "data: " prefix
\*   "done"       data: [DONE]
\*   "raw"        a data line that does not unmarshal into a streamChunk
\*   "nochoices"  a chunk with no choices
\*   "chunk"      a chunk with choices[0].delta.content = content and
\*                choices[0].finish_reason set iff finish
Line(kind, content, finish) == [kind |-> kind, content |-> content, finish |-> finish]

\* an event written to the caller (one "data: ...\n\n" write and a flush):
\*   "done"       the sentinel data: [DONE]
\*   "forward"    the upstream line src, written as it came
\*   "reasoning"  a chunk whose delta holds reasoning_content only
\*   "content"    the upstream chunk with its delta.content replaced
Event(type, content, reasoning, finish, src) ==
    [type |-> type, content |-> content, reasoning |-> reasoning,
     finish |-> finish, src |-> src]

\* the mutant of ChunkEvents: a chunk left without content writes no event
\* of its own, finish reason or not
ChunkEvents_noEmptyFinish(l, r, src) ==
    (IF r.reasoningContent # <<>>
     THEN <<Event("reasoning", <<>>, r.reasoningContent, FALSE, src)>>
     ELSE <<>>)
    \o (IF r.processedContent # <<>>
        THEN <<Event("content", r.processedContent, <<>>, l.finish, src)>>
        ELSE <<>>)

\* the mutant of ChunkEvents: the content event is written first
ChunkEvents_contentFirst(l, r, src) ==
    (IF r.processedContent # <<>>
     THEN <<Event("content", r.processedContent, <<>>, l.finish, src)>>
     ELSE IF l.finish
     THEN <<Event("content", <<>>, <<>>, TRUE, src)>>
     ELSE <<>>)
    \o (IF r.reasoningContent # <<>>
        THEN <<Event("reasoning", <<>>, r.reasoningContent, FALSE, src)>>
        ELSE <<>>)

\* the events of one chunk with non-empty content, after ProcessChunk returned r
ChunkEvents(l, r, src) ==
    (IF r.reasoningContent # <<>>
     THEN <<Event("reasoning", <<>>, r.reasoningContent, FALSE, src)>>
     ELSE <<>>)
    \o (IF r.processedContent # <<>>
        THEN <<Event("content", r.processedContent, <<>>, l.finish, src)>>
        ELSE IF l.finish
        THEN <<Event("content", <<>>, <<>>, TRUE, src)>>
        ELSE <<>>)

\* the body of the scan loop for line l (the src-th line): the processor
\* after it and the events it writes
ScanLine(proc, l, src) ==
    IF l.kind = "empty" \/ l.kind = "other"
    THEN [p |-> proc, events |-> <<>>]
    ELSE IF l.kind = "done"
    THEN [p |-> proc, events |-> <<Event("done", <<>>, <<>>, FALSE, src)>>]
    ELSE IF l.kind = "raw" \/ l.kind = "nochoices" \/ l.content = <<>>
    THEN [p |-> proc, events |-> <<Event("forward", l.content, <<>>, l.finish, src)>>]
    ELSE LET r == ProcessChunk(proc, l.content) IN
         [p |-> r.p, events |-> ChunkEvents(l, r, src)]

\* the mutant of FlushEvents: the remaining buffer is dropped
FlushEvents_dropped(proc) == <<>>

\* the events written after the scan loop for what FlushRemaining returns
FlushEvents(proc) ==
    LET f == FlushRemaining(proc) IN
    (IF f.reasoning # <<>>
     THEN <<Event("reasoning", <<>>, f.reasoning, FALSE, 0)>> ELSE <<>>)
    \o (IF f.content # <<>>
        THEN <<Event("content", f.content, <<>>, FALSE, 0)>> ELSE <<>>)

\* the delta.content values of the upstream chunks
StreamFragments ==
    {<<>>, <<"a">>, OpenTag \o <<"a">>, <<"a">> \o CloseTag \o <<"a">>, <<"<">>}

StreamLines ==
    {Line(k, <<>>, FALSE) : k \in {"empty", "other", "done", "raw", "nochoices"}}
    \cup {Line("chunk", c, f) : c \in StreamFragments, f \in BOOLEAN}

RECURSIVE BodiesUpTo(_)
BodiesUpTo(k) ==
    IF k = 0 THEN {<<>>}
    ELSE LET B == BodiesUpTo(k - 1) IN B \cup {Append(b, l) : b \in B, l \in StreamLines}

\* sendSSE: fmt.Fprintf and flusher.Flush() with their results dropped; a
\* write to a connection the caller closed fails, and the loop goes on
AfterWrites(conn, written) ==
    IF conn = "gone" /\ written # <<>> THEN "write failed" ELSE conn

InitStream ==
    /\ SplitOff
    /\ PoolOff
    /\ TransOff
    /\ p = NewStreamingReasoningProcessor(ThinkingTagMarker)
    /\ httpResult \in {"error", "status", "ok"}
    /\ upstream \in BodiesUpTo(MaxLines)
    /\ scanErr \in BOOLEAN
    /\ lineNo = 0
    /\ events = <<>>
    /\ streamPc = "start"
    /\ streamErr = "nil"
    /\ downstream = "connected"

\* httpClient.Do and the status check: an error return before anything is
\* written, or the start of the scan loop with a new processor
StreamDo ==
    /\ streamPc = "start"
    /\ IF httpResult = "error"
       THEN streamPc' = "returned" /\ streamErr' = "request failed"
       ELSE IF httpResult = "status"
       THEN streamPc' = "returned" /\ streamErr' = "API error"
       ELSE streamPc' = "scan" /\ streamErr' = streamErr
    /\ p' = NewStreamingReasoningProcessor(ThinkingTagMarker)
    /\ UNCHANGED <<splitVars, poolVars, transVars, httpResult, upstream, scanErr, lineNo, events,
                   downstream>>

\* scanner.Scan() returned a line: one pass of the loop body
StreamScanLine ==
    /\ streamPc = "scan"
    /\ lineNo < Len(upstream)
    /\ LET r == ScanLine(p, upstream[lineNo + 1], lineNo + 1) IN
        /\ p' = r.p
        /\ events' = events \o r.events
        /\ downstream' = AfterWrites(downstream, r.events)
    /\ lineNo' = lineNo + 1
    /\ UNCHANGED <<splitVars, poolVars, transVars, httpResult, upstream, scanErr, streamPc, streamErr>>

\* scanner.Scan() returned false: flush the processor, then return the
\* scanner's error, or nil
StreamEnd ==
    /\ streamPc = "scan"
    /\ lineNo = Len(upstream)
    /\ events' = events \o FlushEvents(p)
    /\ downstream' = AfterWrites(downstream, FlushEvents(p))
    /\ streamErr' = IF scanErr THEN "stream read error" ELSE "nil"
    /\ streamPc' = "returned"
    /\ UNCHANGED <<splitVars, poolVars, transVars, p, httpResult, upstream, scanErr, lineNo>>

\* the caller closes its connection while the response is streamed
CallerDisconnects ==
    /\ streamPc = "scan"
    /\ downstream = "connected"
    /\ downstream' = "gone"
    /\ UNCHANGED <<splitVars, poolVars, transVars, p, httpResult, upstream, scanErr, lineNo, events,
                   streamPc, streamErr>>

NextStream == StreamDo \/ StreamScanLine \/ StreamEnd \/ CallerDisconnects

SpecStream == InitStream /\ [][NextStream]_vars

(***************************************************************************)
(* vertex.Client.doStreamRequest: one streaming attempt of the client.     *)
(* events holds the chunks handed to the StreamHandler ("handed").         *)
(***************************************************************************)
\* the chunks the loop body hands to the handler for line l (the src-th
\* line): a data line that unmarshals is handed over, a data line that does
\* not is logged and skipped, every other line is skipped
HandedChunks(l, src) ==
    IF l.kind = "chunk" \/ l.kind = "nochoices"
    THEN <<Event("handed", l.content, <<>>, l.finish, src)>>
    ELSE <<>>

InitClientStream ==
    /\ SplitOff
    /\ PoolOff
    /\ TransOff
    /\ p = NewStreamingReasoningProcessor(ThinkingTagMarker)
    /\ httpResult \in {"error", "status", "ok"}
    /\ upstream \in BodiesUpTo(MaxLines)
    /\ scanErr \in BOOLEAN
    /\ lineNo = 0
    /\ events = <<>>
    /\ streamPc = "start"
    /\ streamErr = "nil"
    /\ downstream = "connected"

\* c.httpClient.Do and the status check
ClientDo ==
    /\ streamPc = "start"
    /\ IF httpResult = "error"
       THEN streamPc' = "returned" /\ streamErr' = "request failed"
       ELSE IF httpResult = "status"
       THEN streamPc' = "returned" /\ streamErr' = "API error"
       ELSE streamPc' = "scan" /\ streamErr' = streamErr
    /\ UNCHANGED <<splitVars, poolVars, transVars, p, httpResult, upstream, scanErr, lineNo, events,
                   downstream>>

\* scanner.Scan() returned a line: one pass of the loop body.  data: [DONE]
\* leaves the loop and nil is returned; an error of the handler is returned.
ClientScanLine ==
    /\ streamPc = "scan"
    /\ lineNo < Len(upstream)
    /\ LET l == upstream[lineNo + 1]
           h == HandedChunks(l, lineNo + 1)
       IN IF l.kind = "done"
          THEN /\ streamPc' = "returned"
               /\ UNCHANGED <<events, streamErr>>
          ELSE IF h = <<>>
          THEN UNCHANGED <<events, streamPc, streamErr>>
          ELSE /\ events' = events \o h
               /\ \/ UNCHANGED <<streamPc, streamErr>>
                  \/ streamPc' = "returned" /\ streamErr' = "handler error"
    /\ lineNo' = lineNo + 1
    /\ UNCHANGED <<splitVars, poolVars, transVars, p, httpResult, upstream, scanErr, downstream>>

\* scanner.Scan() returned false: the scanner's error, or nil, is returned
ClientEnd ==
    /\ streamPc = "scan"
    /\ lineNo = Len(upstream)
    /\ streamErr' = IF scanErr THEN "stream read error" ELSE "nil"
    /\ streamPc' = "returned"
    /\ UNCHANGED <<splitVars, poolVars, transVars, p, httpResult, upstream, scanErr, lineNo, events,
                   downstream>>

NextClientStream == ClientDo \/ ClientScanLine \/ ClientEnd

SpecClientStream == InitClientStream /\ [][NextClientStream]_vars

(***************************************************************************)
(* keys.KeyManager and the retry loops of ChatCompletionsHandler,          *)
(* Client.GenerateContent and Client.StreamGenerateContent.                *)
(*                                                                         *)
(* A key is named by its index in km.keys.  Every request runs in its own  *)
(* goroutine; a step of a goroutine is one action.                         *)
(***************************************************************************)
\* the request goroutines
Procs == {1, 2}

NoProject == "none"

\* what a discovery probe can extract from the error text
ProjectIDs == {"p1", "p2"}

\* the retry loops: ChatCompletionsHandler with stream = true / false,
\* Client.GenerateContent, Client.StreamGenerateContent
Handlers == {"chat_stream", "chat_sync", "generate", "stream_generate"}

\* the mutant of SwitchKey: the retry configuration disables switching
SwitchKey_off == FALSE

\* RetryConfig.SwitchKey as GetRetryConfig sets it
SwitchKey == TRUE

KeyCount == cfg.NumKeys

\* the mutant of NextKeyIndex: the retry stays on the same key
NextKeyIndex_same(idx) == idx

NextKeyIndex(idx) ==
    IF cfg.NumKeys <= 1 THEN idx ELSE (idx + 1) % cfg.NumKeys

\* the mutant of LoopContinues: one attempt too many
LoopContinues_offByOne(attempt) == attempt <= cfg.RetryMax + 1

\* the loop condition attempt <= retryConfig.MaxRetries
LoopContinues(attempt) == attempt <= cfg.RetryMax

\* the mutant of NextCursor: the cursor is not advanced
NextCursor_stuck(c) == c

\* the mutant of NextCursor: the cursor does not wrap around
NextCursor_noWrap(c) == c + 1

\* (km.currentIndex + 1) % len(km.keys)
NextCursor(c) == (c + 1) % cfg.NumKeys

\* the mutant of MuFree: km.mu does not exclude
MuFree_always == TRUE

\* km.mu.Lock() can return
MuFree == mu = 0

\* What one upstream attempt can give back to the retry loop: the error it
\* returns ("nil" for none) and whether it delivered output to the caller
\* before returning (events written to the ResponseWriter by
\* handleStreamingProxy / handleNonStreamingProxy, chunks handed to the
\* StreamHandler by doStreamRequest; doRequest delivers nothing itself).
Outcome(err, wrote) == [err |-> err, wrote |-> wrote]

AttemptOutcomes(h) ==
    IF h = "chat_stream"
    THEN {Outcome("request failed", FALSE), Outcome("API error", FALSE)}
         \cup {Outcome(e, w) : e \in {"nil", "stream read error"}, w \in BOOLEAN}
    ELSE IF h = "chat_sync"
    THEN {Outcome("request failed", FALSE), Outcome("API error", FALSE),
          Outcome("nil", TRUE)}
    ELSE IF h = "generate"
    THEN {Outcome("request failed", FALSE), Outcome("API error", FALSE),
          Outcome("nil", FALSE)}
    ELSE {Outcome("request failed", FALSE), Outcome("API error", FALSE),
          Outcome("handler error", TRUE)}
         \cup {Outcome(e, w) : e \in {"nil", "stream read error"}, w \in BOOLEAN}

\* the request bodies a handler can be given: ChatCompletionsHandler reads
\* JSON ("malformed": json.Unmarshal fails; "nomodel": req.Model == "");
\* the client functions are called with a built request
RequestBodies(h) ==
    IF h \in {"chat_stream", "chat_sync"} THEN {"ok", "malformed", "nomodel"} ELSE {"ok"}

\* the mutant of ValidRequest: the body is not checked
ValidRequest_any(b) == TRUE

\* the body passes the checks made before the retry loop
ValidRequest(b) == b = "ok"

\* the mutant of Succeeded: a nil error is not told from a failure
Succeeded_never(err) == FALSE

\* if err == nil { return }
Succeeded(err) == err = "nil"

\* the mutant of LastErr: the first error is kept
LastErr_first(prev, err) == IF prev = "nil" THEN err ELSE prev

\* lastErr = err
LastErr(prev, err) == err

\* the non-success statuses of a backend reply
BackendErrorStatuses == {429, 500}

\* the status of the backend reply behind the error of an attempt (0: the
\* transport failed and there is no reply)
BackendStatuses(err) ==
    IF err = "request failed" THEN {0}
    ELSE IF err = "API error" THEN BackendErrorStatuses
    ELSE {200}

\* sendError(w, statusCode, ...): WriteHeader(statusCode) and an
\* errorResponse body; WriteHeader has no effect once the response has begun
SendError(me, statusCode, reply, err) ==
    IF me.handler \in {"chat_stream", "chat_sync"}
    THEN [me EXCEPT !.pc = "done", !.reply = reply, !.replyErr = err,
                    !.replyStatus = IF me.wrote THEN 200 ELSE statusCode,
                    !.replyBody = IF me.wrote THEN "events, errorResponse"
                                  ELSE "errorResponse"]
    ELSE [me EXCEPT !.pc = "done", !.reply = reply, !.replyErr = err]

IdleReq ==
    [pc |-> "idle", handler |-> "none", body |-> "none", cursor0 |-> 0,
     attempt |-> 0, keyIndex |-> -1,
     index |-> -1, projectID |-> NoProject, lastErr |-> "nil", wrote |-> FALSE,
     backendStatus |-> 0,
     reply |-> "none", replyErr |-> "nil", replyStatus |-> 0, replyBody |-> "none",
     log |-> <<>>]

OffReq == [IdleReq EXCEPT !.pc = "off"]

\* GetManager: the cursor at 0, and the cache preloaded for every key when
\* GCP_PROJECT_ID is set
GetManager ==
    /\ currentIndex = 0
    /\ mu = 0
    /\ projectCache = [k \in 0..(cfg.NumKeys - 1) |->
                          IF cfg.GCPProjectID # "" THEN cfg.GCPProjectID ELSE NoProject]
    /\ cacheMu = [readers |-> {}, writer |-> 0]

\* a request arrives: it is rejected with 400 by the checks of its body, or
\* it reaches its retry loop
Receive(r) ==
    /\ req[r].pc \in {"idle", "done"}
    /\ served < MaxRetryRequests
    /\ \E h \in Handlers : \E b \in RequestBodies(h) :
        LET me == [IdleReq EXCEPT !.handler = h, !.body = b, !.cursor0 = currentIndex]
        IN req' = [req EXCEPT ![r] =
                      IF ValidRequest(b) THEN [me EXCEPT !.pc = "loop"]
                      ELSE SendError(me, 400, "client_error", b)]
    /\ served' = served + 1
    /\ UNCHANGED <<otherVars, cfg, currentIndex, mu, projectCache, cacheMu, rrPicks>>

\* the head of the for loop: the next attempt picks its key, or the loop is
\* left and the exhaustion is reported (lastErr.Error() on a nil error is a
\* nil dereference in ChatCompletionsHandler)
LoopHead(r) ==
    /\ req[r].pc = "loop"
    /\ IF LoopContinues(req[r].attempt)
       THEN req' = [req EXCEPT ![r].pc = IF req[r].keyIndex < 0 THEN "pa_lock" ELSE "pai"]
       ELSE req' = [req EXCEPT ![r] =
                IF req[r].lastErr = "nil" /\ req[r].handler \in {"chat_stream", "chat_sync"}
                THEN [req[r] EXCEPT !.pc = "done", !.reply = "panic"]
                ELSE SendError(req[r], 500, "exhausted", req[r].lastErr)]
    /\ UNCHANGED <<otherVars, cfg, currentIndex, mu, projectCache, cacheMu, served, rrPicks>>

\* PickAuth: km.mu.Lock()
PickAuthLock(r) ==
    /\ req[r].pc = "pa_lock"
    /\ MuFree
    /\ mu' = r
    /\ req' = [req EXCEPT ![r].pc = "pa_select"]
    /\ UNCHANGED <<otherVars, cfg, currentIndex, projectCache, cacheMu, served, rrPicks>>

\* PickAuth: index = km.currentIndex, or index = rand.Intn(len(km.keys))
PickAuthSelect(r) ==
    /\ req[r].pc = "pa_select"
    /\ IF cfg.RoundRobin
       THEN /\ req' = [req EXCEPT ![r].pc = "pa_advance", ![r].index = currentIndex]
            /\ rrPicks' = Append(rrPicks, currentIndex)
       ELSE /\ \E i \in 0..(cfg.NumKeys - 1) :
                req' = [req EXCEPT ![r].pc = "pa_unlock", ![r].index = i]
            /\ rrPicks' = rrPicks
    /\ UNCHANGED <<otherVars, cfg, currentIndex, mu, projectCache, cacheMu, served>>

\* PickAuth: km.currentIndex = (km.currentIndex + 1) % len(km.keys)
PickAuthAdvance(r) ==
    /\ req[r].pc = "pa_advance"
    /\ currentIndex' = NextCursor(currentIndex)
    /\ req' = [req EXCEPT ![r].pc = "pa_unlock"]
    /\ UNCHANGED <<otherVars, cfg, mu, projectCache, cacheMu, served, rrPicks>>

\* the mutant of PickAuthUnlock: km.mu stays locked
PickAuthUnlock_held(r) ==
    /\ req[r].pc = "pa_unlock"
    /\ req' = [req EXCEPT ![r].pc = "gp_rlock"]
    /\ UNCHANGED <<otherVars, cfg, currentIndex, mu, projectCache, cacheMu, served, rrPicks>>

\* PickAuth: km.mu.Unlock(), then the call of getProjectID
PickAuthUnlock(r) ==
    /\ req[r].pc = "pa_unlock"
    /\ mu' = 0
    /\ req' = [req EXCEPT ![r].pc = "gp_rlock"]
    /\ UNCHANGED <<otherVars, cfg, currentIndex, projectCache, cacheMu, served, rrPicks>>

\* the mutant of PickAuthAtIndex: the cursor is advanced as in PickAuth
PickAuthAtIndex_rotating(r) ==
    /\ req[r].pc = "pai"
    /\ req' = [req EXCEPT
            ![r].pc = "gp_rlock",
            ![r].index = IF req[r].keyIndex < 0 \/ req[r].keyIndex >= cfg.NumKeys
                         THEN 0 ELSE req[r].keyIndex]
    /\ currentIndex' = NextCursor(currentIndex)
    /\ UNCHANGED <<otherVars, cfg, mu, projectCache, cacheMu, served, rrPicks>>

\* PickAuthAtIndex: an index out of range becomes 0; then getProjectID
PickAuthAtIndex(r) ==
    /\ req[r].pc = "pai"
    /\ req' = [req EXCEPT
            ![r].pc = "gp_rlock",
            ![r].index = IF req[r].keyIndex < 0 \/ req[r].keyIndex >= cfg.NumKeys
                         THEN 0 ELSE req[r].keyIndex]
    /\ UNCHANGED <<otherVars, cfg, currentIndex, mu, projectCache, cacheMu, served, rrPicks>>

\* getProjectID: km.cacheMu.RLock()
GetProjectIDRLock(r) ==
    /\ req[r].pc = "gp_rlock"
    /\ cacheMu.writer = 0
    /\ cacheMu' = [cacheMu EXCEPT !.readers = @ \cup {r}]
    /\ req' = [req EXCEPT ![r].pc = "gp_lookup"]
    /\ UNCHANGED <<otherVars, cfg, currentIndex, mu, projectCache, served, rrPicks>>

\* the mutant of GetProjectIDLookup: the cache is not consulted
GetProjectIDLookup_alwaysProbe(r) ==
    /\ req[r].pc = "gp_lookup"
    /\ cacheMu' = [cacheMu EXCEPT !.readers = @ \ {r}]
    /\ req' = [req EXCEPT ![r].pc = "gp_discover"]
    /\ UNCHANGED <<otherVars, cfg, currentIndex, mu, projectCache, served, rrPicks>>

\* getProjectID: the cache lookup and km.cacheMu.RUnlock(); a hit returns
\* the cached id, a miss goes on to the discovery probe
GetProjectIDLookup(r) ==
    /\ req[r].pc = "gp_lookup"
    /\ cacheMu' = [cacheMu EXCEPT !.readers = @ \ {r}]
    /\ IF projectCache[req[r].index] # NoProject
       THEN req' = [req EXCEPT ![r].pc = "upstream",
                               ![r].projectID = projectCache[req[r].index]]
       ELSE req' = [req EXCEPT ![r].pc = "gp_discover"]
    /\ UNCHANGED <<otherVars, cfg, currentIndex, mu, projectCache, served, rrPicks>>

\* discoverProjectID: the probe answers; its error text yields a project id
\* or none (then getProjectID and Pick* return the error)
DiscoverProjectID(r) ==
    /\ req[r].pc = "gp_discover"
    /\ \/ \E id \in ProjectIDs :
            req' = [req EXCEPT ![r].pc = "gp_lock", ![r].projectID = id]
       \/ req' = [req EXCEPT ![r].pc = "auth_err"]
    /\ UNCHANGED <<otherVars, cfg, currentIndex, mu, projectCache, cacheMu, served, rrPicks>>

\* getProjectID: km.cacheMu.Lock()
GetProjectIDLock(r) ==
    /\ req[r].pc = "gp_lock"
    /\ cacheMu.writer = 0
    /\ cacheMu.readers = {}
    /\ cacheMu' = [cacheMu EXCEPT !.writer = r]
    /\ req' = [req EXCEPT ![r].pc = "gp_store"]
    /\ UNCHANGED <<otherVars, cfg, currentIndex, mu, projectCache, served, rrPicks>>

\* getProjectID: km.projectCache[apiKey] = projectID, km.cacheMu.Unlock();
\* Pick* returns the AuthInfo and the upstream call starts
GetProjectIDStore(r) ==
    /\ req[r].pc = "gp_store"
    /\ projectCache' = [projectCache EXCEPT ![req[r].index] = req[r].projectID]
    /\ cacheMu' = [cacheMu EXCEPT !.writer = 0]
    /\ req' = [req EXCEPT ![r].pc = "upstream"]
    /\ UNCHANGED <<otherVars, cfg, currentIndex, mu, served, rrPicks>>

\* Pick* returned an error: the handler answers "Failed to get auth" (the
\* client returns "failed to get auth") and the request is over
AuthFailed(r) ==
    /\ req[r].pc = "auth_err"
    /\ req' = [req EXCEPT ![r] =
                  SendError(req[r], 500, "auth_error", "failed to get project ID")]
    /\ UNCHANGED <<otherVars, cfg, currentIndex, mu, projectCache, cacheMu, served, rrPicks>>

\* the upstream attempt returns.  err == nil: the request is over.
\* Otherwise lastErr = err, the key is switched when SwitchKey and
\* KeyCount() > 1, and the loop sleeps when another attempt is left.
Attempt(r) ==
    /\ req[r].pc = "upstream"
    /\ req[r].handler \in Handlers
    /\ \E o \in AttemptOutcomes(req[r].handler) : \E st \in BackendStatuses(o.err) :
        LET entry == [index |-> req[r].index, err |-> o.err,
                      outputBefore |-> req[r].wrote]
            me == [req[r] EXCEPT !.log = Append(@, entry),
                                 !.wrote = @ \/ o.wrote,
                                 !.backendStatus = st]
        IN IF Succeeded(o.err)
           THEN req' = [req EXCEPT ![r] =
                    [me EXCEPT
                        !.pc = "done", !.reply = "success",
                        !.replyStatus = IF me.handler \in {"chat_stream", "chat_sync"}
                                        THEN st ELSE 0,
                        !.replyBody = IF me.handler = "chat_stream" THEN "events"
                                      ELSE IF me.handler = "chat_sync"
                                      THEN "processed backend body" ELSE "none"]]
           ELSE req' = [req EXCEPT ![r] =
                    [me EXCEPT
                        !.lastErr = LastErr(@, o.err),
                        !.keyIndex = IF SwitchKey /\ KeyCount > 1
                                     THEN NextKeyIndex(req[r].index) ELSE @,
                        !.pc = IF req[r].attempt < cfg.RetryMax THEN "sleep" ELSE "loop",
                        !.attempt = IF req[r].attempt < cfg.RetryMax THEN @ ELSE @ + 1]]
    /\ UNCHANGED <<otherVars, cfg, currentIndex, mu, projectCache, cacheMu, served, rrPicks>>

\* time.Sleep returns; attempt++
Sleep(r) ==
    /\ req[r].pc = "sleep"
    /\ req' = [req EXCEPT ![r].pc = "loop", ![r].attempt = @ + 1]
    /\ UNCHANGED <<otherVars, cfg, currentIndex, mu, projectCache, cacheMu, served, rrPicks>>

\* GeminiHandler: a request for a native endpoint arrives; the handler
\* calls PickAuth once and has no retry loop
ReceiveGemini(r) ==
    /\ req[r].pc \in {"idle", "done"}
    /\ served < MaxGeminiRequests
    /\ req' = [req EXCEPT ![r] = [IdleReq EXCEPT !.pc = "pa_lock", !.handler = "gemini"]]
    /\ served' = served + 1
    /\ UNCHANGED <<otherVars, cfg, currentIndex, mu, projectCache, cacheMu, rrPicks>>

\* GeminiHandler: the upstream answers and the answer, whatever its status,
\* is forwarded to the caller
GeminiForward(r) ==
    /\ req[r].pc = "upstream"
    /\ req[r].handler = "gemini"
    /\ \E e \in {"nil", "request failed", "API error"} :
        req' = [req EXCEPT
            ![r].pc = "done",
            ![r].log = Append(@, [index |-> req[r].index, err |-> e,
                                  outputBefore |-> FALSE]),
            ![r].wrote = TRUE,
            ![r].reply = IF e = "nil" THEN "success" ELSE "forwarded_error",
            ![r].replyErr = e,
            ![r].backendStatus = IF e = "nil" THEN 200 ELSE IF e = "API error" THEN 429 ELSE 0,
            ![r].replyStatus = IF e = "nil" THEN 200 ELSE IF e = "API error" THEN 429 ELSE 500,
            ![r].replyBody = IF e = "request failed" THEN "errorResponse"
                             ELSE "backend body"]
    /\ UNCHANGED <<otherVars, cfg, currentIndex, mu, projectCache, cacheMu, served, rrPicks>>

\* the requests of ChatCompletionsHandler, Client.GenerateContent and
\* Client.StreamGenerateContent
NextRetry ==
    \/ \E r \in Procs : Receive(r)
    \/ \E r \in Procs : LoopHead(r)
    \/ \E r \in Procs : PickAuthLock(r)
    \/ \E r \in Procs : PickAuthSelect(r)
    \/ \E r \in Procs : PickAuthAdvance(r)
    \/ \E r \in Procs : PickAuthUnlock(r)
    \/ \E r \in Procs : PickAuthAtIndex(r)
    \/ \E r \in Procs : GetProjectIDRLock(r)
    \/ \E r \in Procs : GetProjectIDLookup(r)
    \/ \E r \in Procs : DiscoverProjectID(r)
    \/ \E r \in Procs : GetProjectIDLock(r)
    \/ \E r \in Procs : GetProjectIDStore(r)
    \/ \E r \in Procs : AuthFailed(r)
    \/ \E r \in Procs : Attempt(r)
    \/ \E r \in Procs : Sleep(r)

\* the requests of GeminiHandler
NextGemini ==
    \/ \E r \in Procs : ReceiveGemini(r)
    \/ \E r \in Procs : PickAuthLock(r)
    \/ \E r \in Procs : PickAuthSelect(r)
    \/ \E r \in Procs : PickAuthAdvance(r)
    \/ \E r \in Procs : PickAuthUnlock(r)
    \/ \E r \in Procs : GetProjectIDRLock(r)
    \/ \E r \in Procs : GetProjectIDLookup(r)
    \/ \E r \in Procs : DiscoverProjectID(r)
    \/ \E r \in Procs : GetProjectIDLock(r)
    \/ \E r \in Procs : GetProjectIDStore(r)
    \/ \E r \in Procs : AuthFailed(r)
    \/ \E r \in Procs : GeminiForward(r)

\* the configurations: config.Load accepts every integer as RETRY_MAX
Configs(keyCounts, retryMaxes) ==
    [NumKeys : keyCounts, RoundRobin : BOOLEAN, RetryMax : retryMaxes,
     GCPProjectID : {"", "p1"}]

\* SpecRetry: requests served one after the other by one goroutine
InitRetry ==
    /\ SplitOff
    /\ StreamOff
    /\ TransOff
    /\ p = NewStreamingReasoningProcessor(ThinkingTagMarker)
    /\ cfg \in Configs(1..MaxKeys, (0 - 1)..MaxRetryMax)
    /\ GetManager
    /\ req = [r \in Procs |-> IF r = 1 THEN IdleReq ELSE OffReq]
    /\ served = 0
    /\ rrPicks = <<>>

SpecRetry == InitRetry /\ [][NextRetry]_vars

\* SpecPool: two goroutines serving GeminiHandler requests concurrently
InitPool ==
    /\ SplitOff
    /\ StreamOff
    /\ TransOff
    /\ p = NewStreamingReasoningProcessor(ThinkingTagMarker)
    /\ cfg \in Configs(1..MaxKeys, {0})
    /\ GetManager
    /\ req = [r \in Procs |-> IdleReq]
    /\ served = 0
    /\ rrPicks = <<>>

SpecPool == InitPool /\ [][NextGemini]_vars

(***************************************************************************)
(* Reference reading of a text: its delimiter-bounded regions, leftmost    *)
(* first, each closed by the first close delimiter after its open one.     *)
(***************************************************************************)
AfterOpen(s) == Slice(s, Index(s, OpenTag) + Len(OpenTag), Len(s))

AfterClose(s) == Slice(s, Index(s, CloseTag) + Len(CloseTag), Len(s))

\* every open delimiter that starts a region is followed by a close one
RECURSIVE AllTerminated(_)
AllTerminated(s) ==
    IF Index(s, OpenTag) < 0 THEN TRUE
    ELSE IF Index(AfterOpen(s), CloseTag) < 0 THEN FALSE
    ELSE AllTerminated(AfterClose(AfterOpen(s)))

\* the bodies of the terminated regions, in order of appearance
RECURSIVE RegionBodies(_)
RegionBodies(s) ==
    IF Index(s, OpenTag) < 0 \/ Index(AfterOpen(s), CloseTag) < 0 THEN <<>>
    ELSE <<Slice(AfterOpen(s), 0, Index(AfterOpen(s), CloseTag))>>
             \o RegionBodies(AfterClose(AfterOpen(s)))

\* the text with every terminated region, delimiters included, removed
RECURSIVE RegionsRemoved(_)
RegionsRemoved(s) ==
    IF Index(s, OpenTag) < 0 \/ Index(AfterOpen(s), CloseTag) < 0 THEN s
    ELSE Slice(s, 0, Index(s, OpenTag)) \o RegionsRemoved(AfterClose(AfterOpen(s)))

\* the text without the delimiters that bound its regions (the open
\* delimiter of a last, unterminated region included)
RECURSIVE WithoutBoundingDelimiters(_)
WithoutBoundingDelimiters(s) ==
    IF Index(s, OpenTag) < 0 THEN s
    ELSE IF Index(AfterOpen(s), CloseTag) < 0
         THEN Slice(s, 0, Index(s, OpenTag)) \o AfterOpen(s)
    ELSE Slice(s, 0, Index(s, OpenTag))
             \o Slice(AfterOpen(s), 0, Index(AfterOpen(s), CloseTag))
             \o WithoutBoundingDelimiters(AfterClose(AfterOpen(s)))

RECURSIVE JoinNewline(_)
JoinNewline(bodies) ==
    IF bodies = <<>> THEN <<>>
    ELSE IF Len(bodies) = 1 THEN bodies[1]
    ELSE bodies[1] \o <<"\n">> \o JoinNewline(Tail(bodies))

Chars(s) == {s[i] : i \in 1..Len(s)}

DelimiterChars == Chars(OpenTag) \cup Chars(CloseTag)

\* the delimiter characters of the text all belong to delimiters that bound
\* a region
OnlyBoundingDelimiters(s) == Chars(WithoutBoundingDelimiters(s)) \cap DelimiterChars = {}

\* the outputs of feeding the whole text as a single fragment, then flushing
SingleFragment(s) ==
    LET r == ProcessChunk(NewStreamingReasoningProcessor(ThinkingTagMarker), s)
        f == FlushRemaining(r.p)
    IN [content   |-> r.processedContent \o f.content,
        reasoning |-> r.reasoningContent \o f.reasoning]

(***************************************************************************)
(* Claims about the splitter, checked under SpecSplit.                     *)
(***************************************************************************)
\* C1: for any text and any partition of it into fragments, feeding the
\* fragments in order and flushing yields the same concatenated content and
\* the same concatenated reasoning as feeding the text as one fragment.
C1_ChunkingInvariant ==
    splitPc = "flushed" =>
        /\ outContent = SingleFragment(text).content
        /\ outReasoning = SingleFragment(text).reasoning

\* a text with a whole region and text around it, fed one character at a
\* time, so that both delimiters were split at every offset
C1_Witness ==
    /\ splitPc = "flushed"
    /\ nFrags = Len(text)
    /\ nFrags > Len(OpenTag) + Len(CloseTag)
    /\ RegionBodies(text) # <<>>
    /\ outContent # <<>>
    /\ outReasoning # <<>>

\* C2: over a whole stream whose regions are all terminated, the emitted
\* content is the text with every region removed and the emitted reasoning
\* is the region bodies joined with a newline between consecutive bodies.
C2_ContentAndNewlineJoinedReasoning ==
    (splitPc = "flushed" /\ AllTerminated(text)) =>
        /\ outContent = RegionsRemoved(text)
        /\ outReasoning = JoinNewline(RegionBodies(text))

\* C3: when the delimiters that bound the regions are split across
\* fragments, no character of them is ever returned as content or reasoning.
C3_NoDelimiterCharInOutput ==
    OnlyBoundingDelimiters(text) =>
        (Chars(outContent) \cup Chars(outReasoning)) \cap DelimiterChars = {}

\* a region with text before it, fed one character at a time and flushed
C3_Witness ==
    /\ OnlyBoundingDelimiters(text)
    /\ splitPc = "flushed"
    /\ nFrags = Len(text)
    /\ Index(text, OpenTag) > 0
    /\ Index(text, CloseTag) > 0
    /\ outContent # <<>>
    /\ outReasoning # <<>>


(***************************************************************************)
(* Claims about handleStreamingProxy, checked under SpecStream.            *)
(***************************************************************************)
\* C4: in a streaming response no event is written to the caller after the
\* sentinel event data: [DONE]; what the splitter still holds when the
\* upstream ends is written before the sentinel.
\* (Stated for the upstreams that end with their own sentinel: an upstream
\* that sends data after data: [DONE] is not needed to refute it.)
UpstreamDoneLast ==
    \A i \in 1..Len(upstream) : upstream[i].kind = "done" => i = Len(upstream)

C4_NothingAfterDone ==
    UpstreamDoneLast =>
        \A i \in 1..Len(events) : events[i].type = "done" => i = Len(events)

(***************************************************************************)
(* Claims about the retry loops, checked under SpecRetry.                  *)
(***************************************************************************)
\* C5: if a streaming attempt fails after at least one event of it has been
\* written to the caller, no further upstream attempt is made for that
\* request: no attempt starts when output of an earlier attempt has already
\* been delivered.
C5_NoAttemptAfterOutput ==
    \A r \in DOMAIN req :
        \A i \in 1..Len(req[r].log) : ~req[r].log[i].outputBefore

\* C9: for one request the retry loop makes at most maxRetries + 1 upstream
\* attempts, in ChatCompletionsHandler, Client.GenerateContent and
\* Client.StreamGenerateContent alike.
C9_AtMostMaxRetriesPlusOneAttempts ==
    \A r \in DOMAIN req :
        req[r].handler \in Handlers => Len(req[r].log) <= cfg.RetryMax + 1

\* a request that used up a retry budget of at least three attempts
C9_Witness ==
    \E r \in DOMAIN req :
        /\ req[r].handler = "stream_generate"
        /\ req[r].reply = "exhausted"
        /\ cfg.RetryMax >= 2
        /\ Len(req[r].log) = cfg.RetryMax + 1

\* C10: with switching enabled and more than one key, the attempt that
\* follows a failed attempt at index i uses index (i+1) mod N, so two
\* consecutive attempts of a request never use the same key index.
C10_ConsecutiveAttemptsSwitchKey ==
    \A r \in DOMAIN req :
        (req[r].handler \in Handlers /\ SwitchKey /\ cfg.NumKeys > 1) =>
            \A i \in 1..(Len(req[r].log) - 1) :
                /\ req[r].log[i + 1].index = (req[r].log[i].index + 1) % cfg.NumKeys
                /\ req[r].log[i + 1].index # req[r].log[i].index

\* three attempts of one request that wrap around the end of the pool
C10_Witness ==
    \E r \in DOMAIN req :
        /\ req[r].handler = "chat_sync"
        /\ cfg.NumKeys > 1
        /\ Len(req[r].log) >= 3
        /\ req[r].log[2].index = cfg.NumKeys - 1
        /\ req[r].log[3].index = 0

(***************************************************************************)
(* Claims about the key pool under concurrent requests, checked under      *)
(* SpecPool.                                                               *)
(***************************************************************************)
\* the number of picks of index i so far
PickCount(i) == Cardinality({k \in 1..Len(rrPicks) : rrPicks[k] = i})

\* no request is between km.mu.Lock() and km.mu.Unlock()
NoPickInProgress ==
    \A r \in DOMAIN req : req[r].pc \notin {"pa_select", "pa_advance", "pa_unlock"}

\* C6: with round-robin enabled and N keys, successive PickAuth calls on a
\* fresh pool select the indices 0,1,...,N-1,0,1,...: the k-th call selects
\* (k-1) mod N, so every N consecutive picks hold every index exactly once.
C6_RoundRobinCyclicOrder ==
    cfg.RoundRobin =>
        \A k \in 1..Len(rrPicks) : rrPicks[k] = (k - 1) % cfg.NumKeys

\* three keys and a fourth pick, which is back at index 0
C6_Witness ==
    /\ cfg.RoundRobin
    /\ cfg.NumKeys = 3
    /\ rrPicks = <<0, 1, 2, 0>>

\* C7: with round-robin enabled and concurrent PickAuth callers, reading the
\* cursor and advancing it is one atomic step: no advance is lost (the
\* cursor is the number of picks mod N) and after k*N picks every index has
\* been returned exactly k times.
C7_NoLostCursorUpdate ==
    (cfg.RoundRobin /\ NoPickInProgress) =>
        /\ currentIndex = Len(rrPicks) % cfg.NumKeys
        /\ Len(rrPicks) % cfg.NumKeys = 0 =>
               \A i \in 0..(cfg.NumKeys - 1) :
                   PickCount(i) = Len(rrPicks) \div cfg.NumKeys

\* two keys, four picks, and the last two picks made by two requests that
\* are in flight together
C7_Witness ==
    /\ cfg.RoundRobin
    /\ cfg.NumKeys = 2
    /\ Len(rrPicks) = 4
    /\ NoPickInProgress
    /\ req[1].pc = "gp_rlock"
    /\ req[2].pc = "gp_rlock"
    /\ req[1].index # req[2].index

\* C8: once a project identifier is stored in the cache for a key, no later
\* resolve changes the stored value, also when resolves of the same key race
\* and their probes return different identifiers.
C8_CachedProjectNeverOverwritten ==
    [][\A k \in DOMAIN projectCache :
          projectCache[k] # NoProject => projectCache'[k] = projectCache[k]]_vars

(***************************************************************************)
(* Claims about failures and replies of the retry loops, checked under     *)
(* SpecRetry.                                                              *)
(***************************************************************************)
\* C11: a failure to resolve the project identifier of the picked key is
\* handled like any other failed attempt: the loop goes on to its next
\* attempt, and the failure is reported to the caller only by the last
\* attempt the retry budget allows.
C11_ResolutionFailureUsesRetryBudget ==
    \A r \in DOMAIN req :
        (req[r].handler \in Handlers /\ req[r].reply = "auth_error") =>
            req[r].attempt >= cfg.RetryMax

\* C14: on the synchronous path, when every attempt of the retry budget got
\* a non-success reply of the backend, the caller receives the status code
\* and the body of the backend's reply.
C14_BackendStatusAndBodyForwarded ==
    \A r \in DOMAIN req :
        (/\ req[r].handler = "chat_sync"
         /\ req[r].reply = "exhausted"
         /\ \A i \in 1..Len(req[r].log) : req[r].log[i].err = "API error") =>
            /\ req[r].replyStatus = req[r].backendStatus
            /\ req[r].replyBody = "backend body"

\* C15: when every attempt of a request fails, the error reported to the
\* caller is the error of the last attempt.
C15_LastErrorSurfaced ==
    \A r \in DOMAIN req :
        (/\ req[r].handler \in Handlers
         /\ req[r].reply = "exhausted"
         /\ req[r].log # <<>>) =>
            req[r].replyErr = req[r].log[Len(req[r].log)].err

\* a request whose attempts all failed, the first and the last differently
C15_Witness ==
    \E r \in DOMAIN req :
        /\ req[r].handler = "generate"
        /\ req[r].reply = "exhausted"
        /\ Len(req[r].log) >= 2
        /\ req[r].log[1].err = "API error"
        /\ req[r].log[Len(req[r].log)].err = "request failed"
        /\ req[r].replyErr = "request failed"

\* C16: once an attempt succeeds the retry loop returns at once: the
\* successful attempt is the last one of its request, and the request makes
\* no further pick, attempt or sleep.
C16_SuccessEndsTheLoop ==
    \A r \in DOMAIN req :
        req[r].handler \in Handlers =>
            \A i \in 1..Len(req[r].log) :
                req[r].log[i].err = "nil" =>
                    /\ i = Len(req[r].log)
                    /\ req[r].pc = "done"
                    /\ req[r].reply = "success"

\* a request that succeeded at its second attempt, with an attempt left
C16_Witness ==
    \E r \in DOMAIN req :
        /\ req[r].handler = "stream_generate"
        /\ cfg.RetryMax >= 2
        /\ Len(req[r].log) = 2
        /\ req[r].log[2].err = "nil"
        /\ req[r].pc = "done"

\* C19: a request whose body is malformed JSON or has no model is rejected
\* at once with a client error: the request picks no key, leaves the
\* rotation cursor where it was, and makes no upstream attempt.
C19_InvalidRequestRejected ==
    \A r \in DOMAIN req :
        req[r].body \in {"malformed", "nomodel"} =>
            /\ req[r].pc = "done"
            /\ req[r].reply = "client_error"
            /\ req[r].replyStatus = 400
            /\ req[r].index = 0 - 1
            /\ req[r].log = <<>>
            /\ currentIndex = req[r].cursor0

\* a request without a model that was answered
C19_Witness ==
    \E r \in DOMAIN req :
        /\ req[r].handler = "chat_stream"
        /\ req[r].body = "nomodel"
        /\ req[r].reply = "client_error"
        /\ cfg.RoundRobin

(***************************************************************************)
(* Claims about the streaming paths, checked under SpecStream and          *)
(* SpecClientStream.                                                       *)
(***************************************************************************)
\* C12: if the caller disconnects during a streaming response, the read
\* loop observes the failed write and stops reading: once a write to the
\* closed connection has failed, no further upstream line is read.
C12_NoReadAfterFailedWrite ==
    [][downstream = "write failed" => lineNo' = lineNo]_vars

\* the upstream chunks that carry a finish reason, and the events written
\* to the caller that carry one
FinishLines == {i \in 1..Len(upstream) : upstream[i].finish}

FinishEvents == {k \in 1..Len(events) : events[k].finish}

Completed == streamPc = "returned" /\ streamErr = "nil" /\ httpResult = "ok"

\* C13 as stated: every completed streaming response carries a
\* finish-reason event exactly once.
C13_ExactlyOneFinishEvent ==
    Completed => Cardinality(FinishEvents) = 1

\* C13: a completed streaming response carries one finish-reason event for
\* every upstream chunk that carries a finish reason (exactly one when the
\* upstream sends exactly one), also when that chunk yields no visible
\* content after splitting.
C13_OneFinishEventPerFinishChunk ==
    Completed =>
        /\ Cardinality(FinishEvents) = Cardinality(FinishLines)
        /\ \A i \in FinishLines :
               Cardinality({k \in FinishEvents : events[k].src = i}) = 1

\* the only finish reason came with a chunk that left no content, and
\* was written once, in an event without content
C13_Witness ==
    /\ Completed
    /\ Cardinality(FinishLines) = 1
    /\ Cardinality(FinishEvents) = 1
    /\ \E k \in FinishEvents :
           /\ events[k].type = "content"
           /\ events[k].content = <<>>
           /\ upstream[events[k].src].content # <<>>

\* C18: when one upstream fragment yields both reasoning and content, the
\* reasoning event is written before the content event; the events of the
\* end-of-stream flush (src = 0) are in the same order.
C18_ReasoningBeforeContent ==
    \A i \in 1..Len(events) : \A j \in 1..Len(events) :
        (/\ events[i].src = events[j].src
         /\ events[i].type = "reasoning"
         /\ events[j].type = "content") => i < j

\* a fragment that closes a region and goes on with content
C18_Witness ==
    \E i \in 1..Len(events) :
        /\ i < Len(events)
        /\ events[i].type = "reasoning"
        /\ events[i].reasoning # <<>>
        /\ events[i + 1].type = "content"
        /\ events[i + 1].content # <<>>
        /\ events[i + 1].src = events[i].src

\* C20: a data line of the upstream that does not parse as a chunk is passed
\* on unchanged and never dropped, on every streaming path.  (Checked for
\* doStreamRequest, under SpecClientStream.)
C20_UnparsedLinePassedOn ==
    \A i \in 1..lineNo :
        upstream[i].kind = "raw" =>
            \E k \in 1..Len(events) : events[k].src = i

(***************************************************************************)
(* Claims about the end of the stream of the splitter, checked under       *)
(* SpecSplit.                                                              *)
(***************************************************************************)
\* the text after the open delimiter of the last, unterminated region
RECURSIVE UnterminatedTail(_)
UnterminatedTail(s) ==
    IF Index(s, OpenTag) < 0 THEN <<>>
    ELSE IF Index(AfterOpen(s), CloseTag) < 0 THEN AfterOpen(s)
    ELSE UnterminatedTail(AfterClose(AfterOpen(s)))

\* the text outside the regions, the unterminated one included
RECURSIVE OutsideRegions(_)
OutsideRegions(s) ==
    IF Index(s, OpenTag) < 0 THEN s
    ELSE IF Index(AfterOpen(s), CloseTag) < 0 THEN Slice(s, 0, Index(s, OpenTag))
    ELSE Slice(s, 0, Index(s, OpenTag)) \o OutsideRegions(AfterClose(AfterOpen(s)))

RECURSIVE Concat(_)
Concat(ss) == IF ss = <<>> THEN <<>> ELSE Head(ss) \o Concat(Tail(ss))

\* C17: when the stream ends inside a region, FlushRemaining returns the
\* pending buffer as reasoning with empty content, and over the stream all
\* the text after the open delimiter has been returned as reasoning and
\* none of it as content.
C17_UnterminatedRegionIsReasoning ==
    (splitPc = "flushed" /\ ~AllTerminated(text)) =>
        /\ p.inTag
        /\ FlushRemaining(p).content = <<>>
        /\ FlushRemaining(p).reasoning = p.buffer
        /\ outReasoning = Concat(RegionBodies(text)) \o UnterminatedTail(text)
        /\ outContent = OutsideRegions(text)

\* the text "<tag>" followed by two letters, fed in two fragments: the
\* reasoning is the two letters and the content is empty
C17_Witness ==
    /\ splitPc = "flushed"
    /\ text = OpenTag \o <<"a", "a">>
    /\ nFrags = 2
    /\ p.inTag
    /\ p.buffer # <<>>
    /\ outReasoning = <<"a", "a">>
    /\ outContent = <<>>

(***************************************************************************)
(* auth.Middleware: the check every request passes before the mux.         *)
(***************************************************************************)
\* the key strings: the empty string and two keys
AuthKeys == {"", "k1", "k2"}

\* paths the mux has a route for: the health check and a handler
Paths == {"/health", "/v1/chat/completions"}

\* the requests: the path, the Authorization header (absent,
\* "Bearer <token>", or of another scheme), the x-goog-api-key header and
\* the key query parameter ("" when absent)
HTTPRequests ==
    [path : Paths, scheme : {"none", "Bearer", "Basic"}, token : AuthKeys,
     goog : AuthKeys, query : AuthKeys]

\* extractAPIKey: the bearer token when the header has the prefix "Bearer ",
\* else the x-goog-api-key header, else the key parameter, else ""
extractAPIKey(r) ==
    IF r.scheme = "Bearer" THEN r.token
    ELSE IF r.goog # "" THEN r.goog
    ELSE IF r.query # "" THEN r.query
    ELSE ""

\* the mutant of KeyAccepted: any key that is not empty is accepted
KeyAccepted_nonEmpty(key, configured) == key # ""

\* the negation of: apiKey == "" || apiKey != cfg.APIKey
KeyAccepted(key, configured) == ~(key = "" \/ key # configured)

InitAuth ==
    /\ SplitOff
    /\ StreamOff
    /\ PoolOff
    /\ p = NewStreamingReasoningProcessor(ThinkingTagMarker)
    /\ RequestOff /\ ResponseOff /\ ToolCallOff /\ StreamStateOff
    /\ apiKey \in AuthKeys
    /\ httpReq \in {r \in HTTPRequests : r.scheme = "none" => r.token = ""}
    /\ authPc = "received"

\* the handler function Middleware returns, wrapped around the whole mux:
\* next.ServeHTTP (the mux then serves the route of the path), or
\* sendAuthError; the path is not looked at
Middleware ==
    /\ authPc = "received"
    /\ authPc' = IF apiKey = "" THEN "handler"
                 ELSE IF KeyAccepted(extractAPIKey(httpReq), apiKey) THEN "handler"
                 ELSE "rejected"
    /\ UNCHANGED <<splitVars, p, streamVars, poolVars, apiKey, httpReq,
                   requestVars, responseVars, toolCallVars, streamState>>

NextAuth == Middleware

SpecAuth == InitAuth /\ [][NextAuth]_vars

(***************************************************************************)
(* Claims about auth.Middleware, checked under SpecAuth.                   *)
(***************************************************************************)
\* the keys a request presents
PresentedKeys(r) ==
    ((IF r.scheme = "Bearer" THEN {r.token} ELSE {}) \cup {r.goog, r.query}) \ {""}

\* C21 as stated: a request reaches a handler only when a key it presents
\* equals the configured credential; on a mismatch the middleware answers
\* with an authentication error and the handler is not invoked.
C21_HandlerOnlyWithMatchingKey ==
    /\ authPc = "handler" => apiKey \in PresentedKeys(httpReq)
    /\ (authPc # "received" /\ apiKey \notin PresentedKeys(httpReq)) => authPc = "rejected"

\* C21: when a shared credential is configured, a request reaches a handler
\* only when a key it presents equals it, and a request that presents no
\* such key is answered with an authentication error; when none is
\* configured (API_KEY empty) every request reaches the handler.
C21_HandlerOnlyWithMatchingKeyWhenConfigured ==
    /\ apiKey # "" =>
        /\ authPc = "handler" => apiKey \in PresentedKeys(httpReq)
        /\ (authPc # "received" /\ apiKey \notin PresentedKeys(httpReq))
               => authPc = "rejected"
    /\ apiKey = "" => authPc # "rejected"

\* a request let through on the key in its query parameter, while its
\* Authorization header is of another scheme and holds another key
C21_Witness ==
    /\ apiKey = "k1"
    /\ authPc = "handler"
    /\ httpReq.scheme = "Basic"
    /\ httpReq.token = "k2"
    /\ httpReq.goog = ""
    /\ httpReq.query = "k1"

(***************************************************************************)
(* translate.generateToolCallID, called by FromGeminiResponse and          *)
(* StreamState.ProcessChunk for every function-call part, from the         *)
(* goroutine of the request.  toolCallCounter is a package variable        *)
(* without a lock: its increment is a read and a write.                    *)
(***************************************************************************)
\* len(string(rune(n))): the UTF-8 length of the code point n; a value that
\* is no valid code point is encoded as U+FFFD, three bytes
UTF8Len(n) ==
    IF n < 0 \/ n > 1114111 \/ (n >= 55296 /\ n <= 57343) THEN 3
    ELSE IF n < 128 THEN 1
    ELSE IF n < 2048 THEN 2
    ELSE IF n < 65536 THEN 3
    ELSE 4

\* len(base64.RawURLEncoding.EncodeToString(b)) for len(b) = n
RawBase64Len(n) == (4 * n + 2) \div 3

\* "call_" + EncodeToString(...)[:8]: slicing a string shorter than eight
\* bytes to [:8] panics.  <<"panic">>, or the id as <<"call_", n>>.
ToolCallID(n) ==
    IF RawBase64Len(UTF8Len(n)) < 8 THEN <<"panic">> ELSE <<"call_", n>>

IdleCall == [pc |-> "idle", tmp |-> 0, result |-> <<>>]

InitToolCall ==
    /\ SplitOff
    /\ StreamOff
    /\ PoolOff
    /\ p = NewStreamingReasoningProcessor(ThinkingTagMarker)
    /\ AuthOff /\ RequestOff /\ ResponseOff /\ StreamStateOff
    /\ toolCallCounter = 0
    /\ tcall = [r \in Procs |-> IdleCall]
    /\ toolCallIDs = <<>>

\* a translation reaches a function-call part and calls generateToolCallID
\* (after a panic the server has recovered and the goroutine serves the
\* next request)
ToolCallBegin(r) ==
    /\ tcall[r].pc \in {"idle", "returned", "panicked"}
    /\ toolCallCounter < MaxToolCalls
    /\ tcall' = [tcall EXCEPT ![r] = [IdleCall EXCEPT !.pc = "read"]]
    /\ UNCHANGED <<splitVars, p, streamVars, poolVars, authVars, requestVars,
                   responseVars, streamState, toolCallCounter, toolCallIDs>>

\* toolCallCounter++: the read
ToolCallCounterRead(r) ==
    /\ tcall[r].pc = "read"
    /\ tcall' = [tcall EXCEPT ![r].pc = "write", ![r].tmp = toolCallCounter]
    /\ UNCHANGED <<splitVars, p, streamVars, poolVars, authVars, requestVars,
                   responseVars, streamState, toolCallCounter, toolCallIDs>>

\* toolCallCounter++: the write
ToolCallCounterWrite(r) ==
    /\ tcall[r].pc = "write"
    /\ toolCallCounter' = tcall[r].tmp + 1
    /\ tcall' = [tcall EXCEPT ![r].pc = "encode"]
    /\ UNCHANGED <<splitVars, p, streamVars, poolVars, authVars, requestVars,
                   responseVars, streamState, toolCallIDs>>

\* the return statement: the counter is read again, encoded and sliced
ToolCallReturn(r) ==
    /\ tcall[r].pc = "encode"
    /\ LET id == ToolCallID(toolCallCounter) IN
        IF id = <<"panic">>
        THEN /\ tcall' = [tcall EXCEPT ![r].pc = "panicked", ![r].result = id]
             /\ toolCallIDs' = toolCallIDs
        ELSE /\ tcall' = [tcall EXCEPT ![r].pc = "returned", ![r].result = id]
             /\ toolCallIDs' = Append(toolCallIDs, id)
    /\ UNCHANGED <<splitVars, p, streamVars, poolVars, authVars, requestVars,
                   responseVars, streamState, toolCallCounter>>

NextToolCall ==
    \/ \E r \in Procs : ToolCallBegin(r)
    \/ \E r \in Procs : ToolCallCounterRead(r)
    \/ \E r \in Procs : ToolCallCounterWrite(r)
    \/ \E r \in Procs : ToolCallReturn(r)

SpecToolCall == InitToolCall /\ [][NextToolCall]_vars

(***************************************************************************)
(* Claims about generateToolCallID, checked under SpecToolCall.            *)
(***************************************************************************)
\* C22: every call of generateToolCallID returns an id without failing, and
\* the id differs from every id returned before in the process, calls of
\* concurrent requests included.
C22_ToolCallIDsReturnedAndUnique ==
    /\ \A r \in DOMAIN tcall : tcall[r].result # <<"panic">>
    /\ \A i \in 1..Len(toolCallIDs) : \A j \in 1..Len(toolCallIDs) :
           toolCallIDs[i] = toolCallIDs[j] => i = j

(***************************************************************************)
(* The translation of a backend reply that is not streamed:                *)
(* handlers.extractReasoningByTags (processNonStreamingResponse) and       *)
(* translate.FromGeminiResponse (extractThinking, mapFinishReason,         *)
(* generateToolCallID).                                                    *)
(***************************************************************************)
\* the white space strings.TrimSpace removes, as far as the texts hold it
WhiteSpace == {" ", "\n"}

RECURSIVE TrimLeft(_)
TrimLeft(s) == IF s # <<>> /\ Head(s) \in WhiteSpace THEN TrimLeft(Tail(s)) ELSE s

RECURSIVE TrimRight(_)
TrimRight(s) ==
    IF s # <<>> /\ s[Len(s)] \in WhiteSpace THEN TrimRight(SubSeq(s, 1, Len(s) - 1)) ELSE s

\* strings.TrimSpace
TrimSpace(s) == TrimRight(TrimLeft(s))

\* the mutant of Join: the separator is left out
RECURSIVE Join_noSep(_, _)
Join_noSep(parts, sep) ==
    IF parts = <<>> THEN <<>> ELSE Head(parts) \o Join_noSep(Tail(parts), sep)

\* strings.Join
RECURSIVE Join(_, _)
Join(parts, sep) ==
    IF parts = <<>> THEN <<>>
    ELSE IF Len(parts) = 1 THEN parts[1]
    ELSE parts[1] \o sep \o Join(Tail(parts), sep)

\* reasoningTagPattern.FindAllStringSubmatch(content, -1): the matches of
\* <tag>([\s\S]*?)</tag>, leftmost first and not overlapping, each from an
\* open tag to the first close tag after it; [whole match, group 1]
RECURSIVE FindAllStringSubmatch(_)
FindAllStringSubmatch(s) ==
    LET i == Index(s, OpenTag) IN
    IF i < 0 THEN <<>>
    ELSE LET rest == Slice(s, i + Len(OpenTag), Len(s))
             j == Index(rest, CloseTag)
         IN IF j < 0 THEN <<>>
            ELSE <<[match |-> OpenTag \o Slice(rest, 0, j) \o CloseTag,
                    group |-> Slice(rest, 0, j)]>>
                 \o FindAllStringSubmatch(Slice(rest, j + Len(CloseTag), Len(rest)))

\* reasoningTagPattern.ReplaceAllString(content, ""): the text with every
\* match removed
RECURSIVE ReplaceAllString(_)
ReplaceAllString(s) ==
    LET i == Index(s, OpenTag) IN
    IF i < 0 THEN s
    ELSE LET rest == Slice(s, i + Len(OpenTag), Len(s))
             j == Index(rest, CloseTag)
         IN IF j < 0 THEN s
            ELSE Slice(s, 0, i) \o ReplaceAllString(Slice(rest, j + Len(CloseTag), Len(rest)))

\* extractReasoningByTags (handlers) and extractThinking (translate): the
\* text as it is when nothing matches; else the groups joined by "\n" and
\* the text without the matches, trimmed
extractReasoningByTags(content) ==
    LET matches == FindAllStringSubmatch(content) IN
    IF Len(matches) = 0
    THEN [reasoning |-> <<>>, actualContent |-> content]
    ELSE [reasoning |-> Join([k \in 1..Len(matches) |-> matches[k].group], <<"\n">>),
          actualContent |-> TrimSpace(ReplaceAllString(content))]

\* the mutant of mapFinishReason: a value outside the table is passed on
mapFinishReason_passOn(geminiReason) ==
    IF geminiReason = "STOP" THEN "stop"
    ELSE IF geminiReason = "MAX_TOKENS" THEN "length"
    ELSE IF geminiReason \in {"SAFETY", "RECITATION"} THEN "content_filter"
    ELSE geminiReason

mapFinishReason(geminiReason) ==
    IF geminiReason = "STOP" THEN "stop"
    ELSE IF geminiReason = "MAX_TOKENS" THEN "length"
    ELSE IF geminiReason = "SAFETY" THEN "content_filter"
    ELSE IF geminiReason = "RECITATION" THEN "content_filter"
    ELSE IF geminiReason = "OTHER" THEN "stop"
    ELSE IF geminiReason = "" THEN ""
    ELSE "stop"

\* the finish reasons of a candidate: the values the switch names, the
\* empty string, and two values it does not name
FinishReasons ==
    {"STOP", "MAX_TOKENS", "SAFETY", "RECITATION", "OTHER", "", "BLOCKLIST",
     "FINISH_REASON_UNSPECIFIED"}

RespPieces == {OpenTag, CloseTag, <<"a">>, <<" ">>}

RECURSIVE RespTextsUpTo(_)
RespTextsUpTo(k) ==
    IF k = 0 THEN {<<>>}
    ELSE LET T == RespTextsUpTo(k - 1) IN T \cup {t \o q : t \in T, q \in RespPieces}

\* the replies: one candidate with one text part, a finish reason, and
\* function-call parts or none
InitResponse ==
    /\ SplitOff
    /\ StreamOff
    /\ PoolOff
    /\ p = NewStreamingReasoningProcessor(ThinkingTagMarker)
    /\ AuthOff /\ RequestOff /\ ToolCallOff /\ StreamStateOff
    /\ gemResp \in [text : RespTextsUpTo(MaxRespPieces), finishReason : FinishReasons,
                     functionCalls : BOOLEAN]
    /\ procOut = NoMessage
    /\ transOut = NoChoice

\* processNonStreamingResponse: a message without content is passed on as
\* it is; else the content and the reasoning are what extractReasoningByTags
\* returns
ProcessNonStreamingResponse ==
    /\ procOut.state = "none"
    /\ procOut' = IF gemResp.text = <<>>
                  THEN [NoMessage EXCEPT !.state = "returned"]
                  ELSE LET e == extractReasoningByTags(gemResp.text) IN
                       [state |-> "returned", content |-> e.actualContent,
                        reasoning |-> e.reasoning]
    /\ UNCHANGED <<splitVars, p, streamVars, poolVars, authVars, requestVars,
                   toolCallVars, streamState, gemResp, transOut>>

\* FromGeminiResponse for the candidate: the finish reason mapped, the text
\* part through extractThinking, an id for every function call
FromGeminiResponse ==
    /\ transOut.state = "none"
    /\ transOut' =
         IF gemResp.functionCalls /\ ToolCallID(1) = <<"panic">>
         THEN [NoChoice EXCEPT !.state = "panic"]
         ELSE LET e == extractReasoningByTags(gemResp.text) IN
              [state |-> "returned",
               finish_reason |-> mapFinishReason(gemResp.finishReason),
               content |-> IF gemResp.text = <<>> THEN <<>> ELSE e.actualContent,
               reasoning_content |-> IF gemResp.text = <<>> THEN <<>> ELSE e.reasoning,
               tool_calls |-> IF gemResp.functionCalls THEN <<ToolCallID(1)>> ELSE <<>>]
    /\ UNCHANGED <<splitVars, p, streamVars, poolVars, authVars, requestVars,
                   toolCallVars, streamState, gemResp, procOut>>

NextResponse == ProcessNonStreamingResponse \/ FromGeminiResponse

SpecResponse == InitResponse /\ [][NextResponse]_vars

C25_FinishReasonTable ==
    transOut.state = "returned" =>
        transOut.finish_reason =
            CASE gemResp.finishReason = "STOP" -> "stop"
              [] gemResp.finishReason = "MAX_TOKENS" -> "length"
              [] gemResp.finishReason \in {"SAFETY", "RECITATION"} -> "content_filter"
              [] gemResp.finishReason = "" -> ""
              [] OTHER -> "stop"

\* a finish reason the switch does not name
C25_Witness ==
    /\ transOut.state = "returned"
    /\ gemResp.finishReason = "BLOCKLIST"
    /\ transOut.finish_reason = "stop"

(***************************************************************************)
(* translate.ToGeminiRequest: the messages and the tool choice of a        *)
(* chat-completion request become the system instruction, the contents     *)
(* and the tool configuration of a backend request.                        *)
(***************************************************************************)
\* the text of a message (extractTextContent of a string content)
MessageTexts == {<<>>, <<"a">>, <<"b">>}

\* the messages: a role, a text content, and for an assistant tool calls
\* or none
Messages ==
    [role : {"system", "user", "assistant", "tool"}, text : MessageTexts,
     toolCalls : {FALSE}]
    \cup {[role |-> "assistant", text |-> <<>>, toolCalls |-> TRUE],
          [role |-> "function", text |-> <<"a">>, toolCalls |-> FALSE]}

RECURSIVE MessagesUpTo(_)
MessagesUpTo(k) ==
    IF k = 0 THEN {<<>>}
    ELSE LET shorter == MessagesUpTo(k - 1) IN
         shorter \cup {Append(ms, m) : ms \in {x \in shorter : Len(x) = k - 1},
                                        m \in Messages}

\* the tool_choice field: absent, a string, or an object with a type and a
\* function that has a name or none
ToolChoices ==
    {[kind |-> "nil", value |-> "", hasName |-> FALSE, name |-> ""]}
    \cup [kind : {"string"}, value : {"none", "auto", "required", "any"},
          hasName : {FALSE}, name : {""}]
    \cup {[kind |-> "map", value |-> "function", hasName |-> TRUE, name |-> "foo"],
          [kind |-> "map", value |-> "function", hasName |-> FALSE, name |-> ""],
          [kind |-> "map", value |-> "tool", hasName |-> TRUE, name |-> "foo"]}

NoToolConfig == [set |-> FALSE, mode |-> "", allowedFunctionNames |-> <<>>]

\* convertToolChoice without the allow-list of a forced function
convertToolChoice_noAllowList(toolChoice) ==
    [set |-> TRUE,
     mode |-> CASE toolChoice.kind = "string" /\ toolChoice.value = "none" -> "NONE"
                [] toolChoice.kind = "string" /\ toolChoice.value = "auto" -> "AUTO"
                [] toolChoice.kind = "string" /\ toolChoice.value = "required" -> "ANY"
                [] toolChoice.kind = "map" /\ toolChoice.value = "function"
                       /\ toolChoice.hasName -> "ANY"
                [] OTHER -> "",
     allowedFunctionNames |-> <<>>]

\* convertToolChoice: the strings none, auto and required select a mode, any
\* other string selects none; an object of type function whose function has
\* a name selects ANY and allows that name alone
convertToolChoice(toolChoice) ==
    CASE toolChoice.kind = "string" ->
           [set |-> TRUE,
            mode |-> CASE toolChoice.value = "none" -> "NONE"
                       [] toolChoice.value = "auto" -> "AUTO"
                       [] toolChoice.value = "required" -> "ANY"
                       [] OTHER -> "",
            allowedFunctionNames |-> <<>>]
      [] toolChoice.kind = "map" ->
           IF toolChoice.value = "function" /\ toolChoice.hasName
           THEN [set |-> TRUE, mode |-> "ANY",
                 allowedFunctionNames |-> <<toolChoice.name>>]
           ELSE [set |-> TRUE, mode |-> "", allowedFunctionNames |-> <<>>]
      [] OTHER -> [set |-> TRUE, mode |-> "", allowedFunctionNames |-> <<>>]

\* the loop over the messages: the parts of the system instruction
RECURSIVE SystemParts(_)
SystemParts(msgs) ==
    IF msgs = <<>> THEN <<>>
    ELSE LET msg == Head(msgs) IN
         (IF msg.role = "system" /\ msg.text # <<>> THEN <<msg.text>> ELSE <<>>)
         \o SystemParts(Tail(msgs))

\* the content a message becomes, or none: a user message without text and
\* an assistant message without text and tool calls are left out, and so is
\* a message of another role
ContentOf(msg) ==
    CASE msg.role = "user" ->
           IF msg.text = <<>> THEN <<>>
           ELSE <<[role |-> "user", part |-> "text", text |-> msg.text]>>
      [] msg.role = "assistant" ->
           IF msg.toolCalls
           THEN <<[role |-> "model", part |-> "functionCall", text |-> <<>>]>>
           ELSE IF msg.text = <<>> THEN <<>>
           ELSE <<[role |-> "model", part |-> "text", text |-> msg.text]>>
      [] msg.role = "tool" ->
           <<[role |-> "user", part |-> "functionResponse", text |-> msg.text]>>
      [] OTHER -> <<>>

\* the loop over the messages: the contents
RECURSIVE Contents(_)
Contents(msgs) ==
    IF msgs = <<>> THEN <<>>
    ELSE ContentOf(Head(msgs)) \o Contents(Tail(msgs))

NoGeminiRequest ==
    [state |-> "none", systemInstruction |-> [set |-> FALSE, parts |-> <<>>],
     contents |-> <<>>, toolConfig |-> NoToolConfig]

InitRequest ==
    /\ SplitOff
    /\ StreamOff
    /\ PoolOff
    /\ p = NewStreamingReasoningProcessor(ThinkingTagMarker)
    /\ AuthOff /\ ResponseOff /\ ToolCallOff /\ StreamStateOff
    /\ oaiReq \in [messages : MessagesUpTo(MaxMessages), toolChoice : ToolChoices]
    /\ geminiReq = NoGeminiRequest

\* ToGeminiRequest
ToGeminiRequest ==
    /\ geminiReq.state = "none"
    /\ LET systemParts == SystemParts(oaiReq.messages) IN
       geminiReq' =
           [state |-> "returned",
            systemInstruction |->
                IF Len(systemParts) > 0
                THEN [set |-> TRUE, parts |-> systemParts]
                ELSE [set |-> FALSE, parts |-> <<>>],
            contents |-> Contents(oaiReq.messages),
            toolConfig |->
                IF oaiReq.toolChoice.kind # "nil"
                THEN convertToolChoice(oaiReq.toolChoice)
                ELSE NoToolConfig]
    /\ UNCHANGED <<splitVars, p, streamVars, poolVars, authVars, responseVars,
                   toolCallVars, streamState, oaiReq>>

NextRequest == ToGeminiRequest

SpecRequest == InitRequest /\ [][NextRequest]_vars

(***************************************************************************)
(* Claims about the translation of a request, checked under SpecRequest.   *)
(***************************************************************************)
\* the texts of the system messages, in their order
RECURSIVE SystemTexts(_)
SystemTexts(msgs) ==
    IF msgs = <<>> THEN <<>>
    ELSE (IF Head(msgs).role = "system" THEN <<Head(msgs).text>> ELSE <<>>)
         \o SystemTexts(Tail(msgs))

\* the messages that are not system messages, in their order
RECURSIVE OtherTurns(_)
OtherTurns(msgs) ==
    IF msgs = <<>> THEN <<>>
    ELSE (IF Head(msgs).role # "system" THEN <<Head(msgs)>> ELSE <<>>)
         \o OtherTurns(Tail(msgs))

\* C24: ToGeminiRequest takes every system turn out of the turn sequence and
\* puts the system texts, in their order, into the system instruction as
\* one newline-joined text; the other turns keep their relative order.
\* Stated for requests whose system turns all carry text, so that it does
\* not turn on what an empty system text becomes.
C24_SystemTextsJoinedByNewline ==
    geminiReq.state = "returned" =>
        LET systemTexts == SystemTexts(oaiReq.messages) IN
        /\ (systemTexts # <<>> /\ \A i \in 1..Len(systemTexts) : systemTexts[i] # <<>>) =>
               /\ geminiReq.systemInstruction.set
               /\ geminiReq.systemInstruction.parts = <<JoinNewline(systemTexts)>>
        /\ geminiReq.contents = Contents(OtherTurns(oaiReq.messages))

\* C26: convertToolChoice maps the strings none, auto and required to the
\* modes NONE, AUTO and ANY, and a forced function choice of name f to the
\* mode ANY with the allowed-function list exactly <<f>>.
C26_ToolChoiceModes ==
    geminiReq.state = "returned" =>
        LET tc == oaiReq.toolChoice
            config == geminiReq.toolConfig
        IN /\ tc.kind = "string" /\ tc.value = "none" => config.set /\ config.mode = "NONE"
           /\ tc.kind = "string" /\ tc.value = "auto" => config.set /\ config.mode = "AUTO"
           /\ tc.kind = "string" /\ tc.value = "required" => config.set /\ config.mode = "ANY"
           /\ tc.kind = "map" /\ tc.value = "function" /\ tc.hasName =>
                  /\ config.set
                  /\ config.mode = "ANY"
                  /\ config.allowedFunctionNames = <<tc.name>>

\* the forced choice of the function foo
C26_Witness ==
    /\ geminiReq.state = "returned"
    /\ oaiReq.toolChoice = [kind |-> "map", value |-> "function",
                            hasName |-> TRUE, name |-> "foo"]
    /\ geminiReq.toolConfig = [set |-> TRUE, mode |-> "ANY",
                               allowedFunctionNames |-> <<"foo">>]

(***************************************************************************)
(* translate.StreamState: the splitter of the translated stream, fed one   *)
(* text in every partition, one text part per chunk.                       *)
(***************************************************************************)
NewStreamState ==
    [inThinking |-> FALSE, thinkingBuffer |-> <<>>, contentBuffer |-> <<>>]

\* findPartialTag: the start of the shortest suffix of txt that is a proper
\* prefix of tag, or -1
findPartialTag(txt, tag) ==
    LET found == {i \in 1..Len(txt) :
                     /\ i < Len(tag)
                     /\ Slice(txt, Len(txt) - i, Len(txt)) = Slice(tag, 0, i)}
    IN IF found = {} THEN -1 ELSE Len(txt) - Min(found)

\* the loop of processText: the delimiters are looked for in what remains of
\* this call's text alone; a region that closes assigns the thinking buffer
\* to the reasoning returned; a possible start of an open delimiter at the
\* end goes to the content buffer, which nothing reads
RECURSIVE processTextLoop(_, _, _, _)
processTextLoop(s, remaining, content, reasoning) ==
    IF Len(remaining) = 0
    THEN [s |-> s, content |-> content, reasoning |-> reasoning]
    ELSE IF s.inThinking
    THEN LET closeIdx == Index(remaining, CloseTag) IN
         IF closeIdx >= 0
         THEN processTextLoop(
                  [s EXCEPT !.thinkingBuffer = <<>>, !.inThinking = FALSE],
                  Slice(remaining, closeIdx + Len(CloseTag), Len(remaining)),
                  content,
                  s.thinkingBuffer \o Slice(remaining, 0, closeIdx))
         ELSE processTextLoop(
                  [s EXCEPT !.thinkingBuffer = @ \o remaining],
                  <<>>, content, reasoning)
    ELSE LET openIdx == Index(remaining, OpenTag) IN
         IF openIdx >= 0
         THEN processTextLoop(
                  [s EXCEPT !.inThinking = TRUE],
                  Slice(remaining, openIdx + Len(OpenTag), Len(remaining)),
                  content \o Slice(remaining, 0, openIdx),
                  reasoning)
         ELSE LET partialIdx == findPartialTag(remaining, OpenTag) IN
              IF partialIdx >= 0
              THEN processTextLoop(
                       [s EXCEPT !.contentBuffer =
                            @ \o Slice(remaining, partialIdx, Len(remaining))],
                       <<>>,
                       content \o Slice(remaining, 0, partialIdx),
                       reasoning)
              ELSE processTextLoop(s, <<>>, content \o remaining, reasoning)

processText(s, txt) == processTextLoop(s, txt, <<>>, <<>>)

InitStreamState ==
    /\ text \in Texts
    /\ pos = 0
    /\ nFrags = 0
    /\ outContent = <<>>
    /\ outReasoning = <<>>
    /\ splitPc = "streaming"
    /\ p = NewStreamingReasoningProcessor(ThinkingTagMarker)
    /\ StreamOff
    /\ PoolOff
    /\ AuthOff /\ RequestOff /\ ResponseOff /\ ToolCallOff
    /\ streamState = NewStreamState

\* StreamState.ProcessChunk on a chunk whose candidate has one text part,
\* the next n characters of the text
StreamStateProcessChunk ==
    /\ splitPc = "streaming"
    /\ \E n \in 1..MaxChunk :
        /\ pos + n <= Len(text)
        /\ LET r == processText(streamState, Slice(text, pos, pos + n)) IN
            /\ streamState' = r.s
            /\ outContent' = outContent \o r.content
            /\ outReasoning' = outReasoning \o r.reasoning
        /\ pos' = pos + n
        /\ nFrags' = nFrags + 1
    /\ UNCHANGED <<text, splitPc, p, streamVars, poolVars, authVars, requestVars,
                   responseVars, toolCallVars>>

NextStreamState == StreamStateProcessChunk

SpecStreamState == InitStreamState /\ [][NextStreamState]_vars

(***************************************************************************)
(* Claims about translate.StreamState, checked under SpecStreamState.      *)
(***************************************************************************)
\* C27: for any text and any partition of it into fragments, the
\* concatenated content and the concatenated reasoning StreamState returned
\* over the stream are those it returns for the text in one fragment.
C27_StreamStateChunkingInvariant ==
    (splitPc = "streaming" /\ pos = Len(text) /\ nFrags >= 1) =>
        LET whole == processText(NewStreamState, text) IN
        /\ outContent = whole.content
        /\ outReasoning = whole.reasoning

(***************************************************************************)
(* Claims about the pending buffer of the splitter and about open          *)
(* delimiters inside a region, checked under SpecSplit.                    *)
(***************************************************************************)
\* C28: after every ProcessChunk call, whatever the fragments fed so far,
\* the pending buffer is no longer than the longer of the two delimiters.
C28_BufferBoundedByDelimiterLength ==
    (splitPc # "off" /\ nFrags >= 1) =>
        Len(p.buffer) <= max(Len(OpenTag), Len(CloseTag))

\* inside a region after several fragments, the buffer as long as it gets:
\* one character less than the close delimiter
C28_Witness ==
    /\ splitPc = "feeding"
    /\ nFrags >= 3
    /\ p.inTag
    /\ Len(p.buffer) = Len(CloseTag) - 1
    /\ outReasoning # <<>>

\* the length of the longest suffix of s that is a proper prefix of tag
LongestPartial(s, tag) ==
    max(0, CHOOSE n \in 0..Len(s) :
               /\ \/ n = 0
                  \/ n < Len(tag) /\ Slice(s, Len(s) - n, Len(s)) = Slice(tag, 0, n)
               /\ \A m \in (n + 1)..Len(s) :
                      ~(m < Len(tag) /\ Slice(s, Len(s) - m, Len(s)) = Slice(tag, 0, m)))

\* C29: when the buffer holds no complete sought delimiter, ProcessChunk
\* holds back exactly the longest suffix of the buffer that is a proper
\* prefix of the sought delimiter (the close one inside a region, the open
\* one outside) and emits everything before it.  The characters fed so far
\* end with the buffer, and no proper prefix of a delimiter reaches back
\* over the end of the delimiter before it.
C29_HoldsBackLongestPartialDelimiter ==
    (splitPc = "feeding" /\ nFrags >= 1) =>
        LET fed == Slice(text, 0, pos)
            sought == IF p.inTag THEN p.closeTag ELSE p.openTag
            n == LongestPartial(fed, sought)
        IN p.buffer = Slice(fed, Len(fed) - n, Len(fed))

\* an open delimiter inside a region of the text, terminated or not
OpenInsideRegion(s) ==
    \/ \E i \in 1..Len(RegionBodies(s)) : Index(RegionBodies(s)[i], OpenTag) >= 0
    \/ Index(UnterminatedTail(s), OpenTag) >= 0

\* C30: while the splitter is inside a region, an open delimiter in the
\* input is emitted as reasoning text and does not start a new region; the
\* region ends at the first close delimiter that follows.
C30_OpenInsideRegionIsReasoning ==
    (splitPc = "flushed" /\ OpenInsideRegion(text)) =>
        /\ outReasoning = Concat(RegionBodies(text)) \o UnterminatedTail(text)
        /\ outContent = OutsideRegions(text)

\* "<tag><tag></tag>a" fed one character at a time: the second open
\* delimiter is the reasoning, and the letter after the first close
\* delimiter is content
C30_Witness ==
    /\ splitPc = "flushed"
    /\ text = OpenTag \o OpenTag \o CloseTag \o <<"a">>
    /\ nFrags = Len(text)
    /\ outReasoning = OpenTag
    /\ outContent = <<"a">>
    /\ ~p.inTag

(***************************************************************************)
(* SpecServer: two goroutines on the one KeyManager, serving requests of   *)
(* the retry loops and of GeminiHandler at the same time.                  *)
(***************************************************************************)
\* GeminiHandler is entered while requests are left to receive
ServeGemini(r) ==
    /\ served < MaxServerRequests
    /\ ReceiveGemini(r)

\* a retry loop is entered by the first request received
ServeRetry(r) ==
    /\ served = 0
    /\ Receive(r)

NextServer ==
    \/ \E r \in Procs : ServeRetry(r)
    \/ \E r \in Procs : ServeGemini(r)
    \/ \E r \in Procs : LoopHead(r)
    \/ \E r \in Procs : PickAuthLock(r)
    \/ \E r \in Procs : PickAuthSelect(r)
    \/ \E r \in Procs : PickAuthAdvance(r)
    \/ \E r \in Procs : PickAuthUnlock(r)
    \/ \E r \in Procs : PickAuthAtIndex(r)
    \/ \E r \in Procs : GetProjectIDRLock(r)
    \/ \E r \in Procs : GetProjectIDLookup(r)
    \/ \E r \in Procs : DiscoverProjectID(r)
    \/ \E r \in Procs : GetProjectIDLock(r)
    \/ \E r \in Procs : GetProjectIDStore(r)
    \/ \E r \in Procs : AuthFailed(r)
    \/ \E r \in Procs : Attempt(r)
    \/ \E r \in Procs : Sleep(r)
    \/ \E r \in Procs : GeminiForward(r)

InitServer ==
    /\ SplitOff
    /\ StreamOff
    /\ TransOff
    /\ p = NewStreamingReasoningProcessor(ThinkingTagMarker)
    /\ cfg \in Configs({1, 2}, {1})
    /\ GetManager
    /\ req = [r \in Procs |-> IdleReq]
    /\ served = 0
    /\ rrPicks = <<>>

SpecServer == InitServer /\ [][NextServer]_vars

\* C31: in every reachable state of a non-empty pool, after any
\* interleaving of PickAuth, PickAuthAtIndex and NextKeyIndex calls by
\* concurrent requests, the rotation cursor is a valid index.
C31_CursorIsValidIndex ==
    cfg.NumKeys >= 1 => (0 <= currentIndex /\ currentIndex < cfg.NumKeys)

\* a retry on the key PickAuthAtIndex was given, while the other goroutine
\* is inside PickAuth and has just wrapped the cursor around
C31_Witness ==
    \E r1 \in Procs : \E r2 \in Procs \ {r1} :
        /\ cfg.NumKeys = 2
        /\ cfg.RoundRobin
        /\ req[r1].handler \in Handlers
        /\ req[r1].attempt = 1
        /\ req[r1].pc = "upstream"
        /\ req[r1].index = NextKeyIndex(req[r1].log[1].index)
        /\ req[r2].handler = "gemini"
        /\ req[r2].pc = "pa_unlock"
        /\ Len(rrPicks) = 2
        /\ currentIndex = 0

\* the places where a request waits: time.Sleep between two attempts, the
\* discovery probe, the upstream call
Waiting(r) == req[r].pc \in {"sleep", "gp_discover", "upstream"}

\* C34: a request that sleeps between retry attempts, waits for a discovery
\* probe or waits for an upstream reply holds neither km.mu nor km.cacheMu,
\* so no PickAuth call of another request waits for it.
C34_WaitingHoldsNoLock ==
    \A r \in Procs :
        Waiting(r) =>
            /\ mu # r
            /\ cacheMu.writer # r
            /\ r \notin cacheMu.readers

\* one request sleeps between two attempts and the other has taken km.mu
\* in PickAuth
C34_Witness ==
    \E r1 \in Procs : \E r2 \in Procs \ {r1} :
        /\ req[r1].pc = "sleep"
        /\ req[r2].pc = "pa_select"
        /\ mu = r2

C33_CachedIdentifierNoProbe ==
    [][\A r \in Procs :
          (/\ req[r].pc = "gp_lookup"
           /\ projectCache[req[r].index] # NoProject
           /\ req'[r].pc # "gp_lookup") =>
              /\ req'[r].pc = "upstream"
              /\ req'[r].projectID = projectCache[req[r].index]
              /\ projectCache' = projectCache]_vars

\* no project id configured and one credential: the second attempt of a
\* request got the identifier the first attempt discovered and stored
C33_Witness ==
    \E r \in Procs :
        /\ cfg.GCPProjectID = ""
        /\ cfg.NumKeys = 1
        /\ req[r].handler \in Handlers
        /\ Len(req[r].log) = 1
        /\ req[r].pc = "upstream"
        /\ req[r].projectID = projectCache[req[r].index]

\* C38: PickAuthAtIndex and NextKeyIndex leave the rotation cursor
\* unchanged: with more than one credential and switching enabled a request
\* advances the round-robin cursor exactly once however many attempts it
\* makes.
C38_CursorAdvancedOncePerRequest ==
    \A r \in Procs :
        (/\ req[r].handler \in Handlers
         /\ cfg.RoundRobin
         /\ cfg.NumKeys > 1
         /\ SwitchKey
         /\ Len(req[r].log) >= 1) =>
            currentIndex = (req[r].cursor0 + 1) % cfg.NumKeys

\* a request that made three attempts on two or more credentials
C38_Witness ==
    \E r \in Procs :
        /\ req[r].handler \in Handlers
        /\ cfg.RoundRobin
        /\ cfg.NumKeys > 1
        /\ Len(req[r].log) = 3
        /\ req[r].log[2].index # req[r].log[1].index
        /\ req[r].pc = "done"
        /\ currentIndex = (req[r].cursor0 + 1) % cfg.NumKeys

\* C39: for every retry maximum the configuration loader accepts, zero and
\* negative values included, the retry loop makes at least one upstream
\* attempt, so that a request never reports exhaustion without an error
\* observed.
C39_AtLeastOneAttempt ==
    \A r \in Procs :
        (/\ req[r].handler \in Handlers
         /\ req[r].pc = "done"
         /\ req[r].reply \in {"exhausted", "panic"}) =>
            /\ Len(req[r].log) >= 1
            /\ req[r].lastErr # "nil"

(***************************************************************************)
(* Claims about concurrent discovery, checked under SpecPool.              *)
(***************************************************************************)
\* the request has issued a discovery probe in the getProjectID call it is in
ProbeIssued(r) == req[r].pc \in {"gp_discover", "gp_lock", "gp_store"}

\* C37: when concurrent requests miss the cache for the same credential, at
\* most one discovery probe is issued for that credential.
C37_AtMostOneProbePerCredential ==
    \A r1 \in Procs : \A r2 \in Procs \ {r1} :
        (ProbeIssued(r1) /\ ProbeIssued(r2)) => req[r1].index # req[r2].index

(***************************************************************************)
(* The streaming splitter against the non-streaming extraction, checked    *)
(* under SpecSplit.                                                        *)
(***************************************************************************)
\* C36: for the same complete backend text, the streaming splitter (the
\* concatenated ProcessChunk outputs and FlushRemaining) and
\* extractReasoningByTags return the same content and the same reasoning.
\* Stated for the texts whose regions are all terminated, so that it does
\* not turn on what an open delimiter without a close one becomes.
C36_StreamingEqualsNonStreaming ==
    (splitPc = "flushed" /\ AllTerminated(text)) =>
        /\ outContent = extractReasoningByTags(text).actualContent
        /\ outReasoning = extractReasoningByTags(text).reasoning

(***************************************************************************)
(* The health route behind auth.Middleware, checked under SpecAuth.        *)
(***************************************************************************)
\* C35: the /health endpoint is served without authentication: a request
\* to /health gets the health reply whatever key it presents, also when a
\* shared API key is configured.
C35_HealthServedWithoutKey ==
    (authPc # "received" /\ httpReq.path = "/health") => authPc = "handler"

=============================================================================
